---- MODULE Spec2Model ----
(***************************************************************************)
(* Term-resolution workflow of the terminus API: the two stores (official  *)
(* terminus and candidate terminus), the background task                   *)
(* _fetch_validate_and_store_definition, and the HTTP handlers that read   *)
(* and write the stores.  Text is modelled by strings, so truncation,      *)
(* prefixes and key normalisation are computed as the code computes them.  *)
(***************************************************************************)
EXTENDS Integers, Sequences, FiniteSets, TLC

(***************************************************************************)
(* Bounds of the model.                                                    *)
(***************************************************************************)
NumWorkflows == 2
MaxOps == 2
MaxRaceOps == 3
MaxStoreOps == 3
MaxTerms == 3
MaxExtractOps == 1
MaxTermsOps == 2
MaxPrecomputeTerms == 3
MaxFollowUps == 4

(***************************************************************************)
(* Python string operations.                                               *)
(***************************************************************************)
Min(a, b) == IF a < b THEN a ELSE b

RECURSIVE Rep(_, _)
Rep(s, n) == IF n = 0 THEN "" ELSE s \o Rep(s, n - 1)

\* s.startswith(p)
StartsWith(s, p) == Len(s) >= Len(p) /\ SubSeq(s, 1, Len(p)) = p

\* s[:n]
Prefix(s, n) == SubSeq(s, 1, Min(n, Len(s)))

\* lower-casing of one character; the upper-case letters are those of the
\* request terms
LowerChar(c) ==
    CASE c = "G" -> "g"
      [] c = "D" -> "d"
      [] c = "P" -> "p"
      [] OTHER -> c

\* s.lower(), character by character
RECURSIVE LowerChars(_)
LowerChars(s) ==
    IF Len(s) <= 1 THEN LowerChar(s)
    ELSE LET mid == Len(s) \div 2
         IN  LowerChars(SubSeq(s, 1, mid))
                 \o LowerChars(SubSeq(s, mid + 1, Len(s)))

\* a term longer than the 200 characters a status keeps of a message
LongTerm == Rep("gdp deflator ", 12) \o "index"

\* LongTerm.lower(), computed once
LowerLongTerm == LowerChars(LongTerm)

\* s.lower()
Lower(s) == IF s = LongTerm THEN LowerLongTerm ELSE LowerChars(s)

RECURSIVE LStrip(_)
LStrip(s) == IF s = "" THEN ""
             ELSE IF Head(s) = " " THEN LStrip(Tail(s)) ELSE s

RECURSIVE RStrip(_)
RStrip(s) == IF s = "" THEN ""
             ELSE IF SubSeq(s, Len(s), Len(s)) = " "
                  THEN RStrip(SubSeq(s, 1, Len(s) - 1)) ELSE s

\* s.strip()
Strip(s) == RStrip(LStrip(s))

(***************************************************************************)
(* Inputs: the terms requests carry and what the external services answer. *)
(***************************************************************************)
RawTerms == {" GDP ", " ", LongTerm}

Summaries == {"Gross domestic product is a monetary measure."}

LongReasoning == Rep("The text describes an unrelated subject. ", 7)

\* a reasoning that makes the status exactly as long as the limit, and one
\* that is one character longer
FittingReasoning == Rep("Vague. ", 34) \o "Off"

Reasonings ==
    {"Not an economics term.", FittingReasoning, FittingReasoning \o ".",
     LongReasoning}

None == [kind |-> "None"]

\* what the wikipedia library does for one query: a page summary is found by
\* one of the strategies, nothing is found, or a call raises inside query
WikiOutcomes ==
    [kind : {"summary"}, text : Summaries]
        \cup {[kind |-> "none", text |-> ""], [kind |-> "error", text |-> ""]}

FollowUpObj(i) ==
    [type |-> "FollowUp",
     term |-> "subterm " \o ToString(i),
     question |-> "What is subterm " \o ToString(i) \o "?",
     definition |-> "Definition of subterm " \o ToString(i) \o "."]

FollowUpsForward(n) == [i \in 1..n |-> FollowUpObj(i)]

\* the follow_ups lists the LLM may put in a terminusAnswer; the schema sets no
\* maximum length
FollowUpAnswers ==
    {<<>>, FollowUpsForward(MaxFollowUps)}

\* what the LLM client call does: a structured response, a connection error,
\* or any other error
ValidationOutcomes ==
    {[kind |-> "ok", is_valid |-> TRUE, reasoning |-> "Accurate."]}
        \cup [kind : {"ok"}, is_valid : {FALSE}, reasoning : Reasonings]
        \cup {[kind |-> "conn_error", is_valid |-> FALSE, reasoning |-> ""],
              [kind |-> "llm_error", is_valid |-> FALSE, reasoning |-> ""]}

FollowUpOutcomes ==
    [kind : {"ok"}, follow_ups : FollowUpAnswers]
        \cup {[kind |-> "conn_error", follow_ups |-> <<>>],
              [kind |-> "llm_error", follow_ups |-> <<>>]}

(***************************************************************************)
(* WikipediaService.query: every exception raised inside the lookup is     *)
(* caught by the outer handler and turned into a message; query returns a  *)
(* string in every case.                                                   *)
(***************************************************************************)
Returned(v) == [raised |-> FALSE, value |-> v, message |-> ""]

Raised(m) == [raised |-> TRUE, value |-> None, message |-> m]

WikiErrorMessage == "HTTPSConnectionPool: Read timed out."

\* a query that lets the exception of the lookup escape
query_Reraises(term, o) ==
    LET t == Strip(term)
    IN  IF t = "" THEN Returned("Please provide a term to search.")
        ELSE IF o.kind = "summary" THEN Returned(o.text)
        ELSE IF o.kind = "none"
             THEN Returned("Could not find a relevant Wikipedia page for '"
                               \o t \o "'.")
        ELSE Raised(WikiErrorMessage)

query(term, o) ==
    LET t == Strip(term)
    IN  IF t = "" THEN Returned("Please provide a term to search.")
        ELSE IF o.kind = "summary" THEN Returned(o.text)
        ELSE IF o.kind = "none"
             THEN Returned("Could not find a relevant Wikipedia page for '"
                               \o t \o "'.")
        ELSE Returned("An error occurred while searching Wikipedia for '"
                          \o t \o "'.")

(***************************************************************************)
(* LLM services.                                                           *)
(***************************************************************************)
ConnErrorMessage == "litellm.APIConnectionError: connection refused"

ValidationErrorMessage == "2 validation errors: field required"

\* BaseLLMService.generate_response: a connection error is re-raised; on any
\* other error response_model() is built without arguments, which raises for
\* the response models used here because all their fields are required
generate_response(o, response) ==
    IF o.kind = "ok" THEN Returned(response)
    ELSE IF o.kind = "conn_error" THEN Raised(ConnErrorMessage)
    ELSE Raised(ValidationErrorMessage)

\* DefinitionValidationService.validate_definition
validate_definition(term, summary, o) ==
    IF term = "" \/ summary = "" THEN Returned(None)
    ELSE LET result == generate_response(o,
                 [kind |-> "DefinitionValidationResult",
                  is_valid |-> o.is_valid, reasoning |-> o.reasoning])
         IN  IF result.raised THEN Returned(None) ELSE Returned(result.value)

\* FUService.generate_followups
generate_followups(term, definition, o) ==
    generate_response(o, [kind |-> "terminusAnswer", term |-> term,
                          definition |-> definition,
                          follow_ups |-> o.follow_ups])

(***************************************************************************)
(* The stores.  A store maps a key to a row; follow-ups are kept as the    *)
(* JSON text of a list of dicts.                                           *)
(***************************************************************************)
IsFollowUp(fu) == "type" \in DOMAIN fu

\* FollowUp.model_dump()
model_dump(fu) ==
    [term |-> fu.term, question |-> fu.question, definition |-> fu.definition]

\* FollowUp(**d)
FollowUp(d) ==
    [type |-> "FollowUp", term |-> d.term, question |-> d.question,
     definition |-> d.definition]

_serialize_follow_ups(follow_ups) ==
    [json |-> [i \in 1..Len(follow_ups) |->
                  IF IsFollowUp(follow_ups[i]) THEN model_dump(follow_ups[i])
                  ELSE follow_ups[i]]]

\* a deserialisation that returns the follow-ups last to first
_deserialize_follow_ups_Reversed(follow_ups_str) ==
    [i \in 1..Len(follow_ups_str.json) |->
        FollowUp(follow_ups_str.json[Len(follow_ups_str.json) + 1 - i])]

\* json.loads and FollowUp(**fu) for each item
_deserialize_follow_ups(follow_ups_str) ==
    [i \in 1..Len(follow_ups_str.json) |-> FollowUp(follow_ups_str.json[i])]

TerminusExists(store, term) == Lower(term) \in DOMAIN store

TerminusGet(store, term) ==
    IF Lower(term) \in DOMAIN store THEN store[Lower(term)] ELSE None

\* the pydantic model of an answer
terminusAnswer(term, definition, follow_ups) ==
    [term |-> term, definition |-> definition, follow_ups |-> follow_ups]

TerminusGetAsPydantic(store, term) ==
    IF Lower(term) \notin DOMAIN store THEN None
    ELSE LET db_obj == store[Lower(term)]
         IN  terminusAnswer(db_obj.term, db_obj.definition,
                            _deserialize_follow_ups(db_obj.follow_ups))

\* a save that keeps the follow-ups of the row it updates
TerminusSave_KeepsFollowUps(store, term, definition, follow_ups) ==
    LET key == Lower(term)
    IN  [k \in DOMAIN store \cup {key} |->
            IF k = key
            THEN [term |-> key, definition |-> definition,
                  follow_ups |-> IF key \in DOMAIN store
                                 THEN store[key].follow_ups
                                 ELSE _serialize_follow_ups(follow_ups)]
            ELSE store[k]]

TerminusSave(store, term, definition, follow_ups) ==
    LET key == Lower(term)
    IN  [k \in DOMAIN store \cup {key} |->
            IF k = key
            THEN [term |-> key, definition |-> definition,
                  follow_ups |-> _serialize_follow_ups(follow_ups)]
            ELSE store[k]]

TerminusDelete(store, term) ==
    [k \in DOMAIN store \ {Lower(term)} |-> store[k]]

CandidateExists(store, term) == Lower(term) \in DOMAIN store

CandidateGet(store, term) ==
    IF Lower(term) \in DOMAIN store THEN store[Lower(term)] ELSE None

CandidateterminusAnswer(term, definition, follow_ups, status) ==
    [term |-> term, definition |-> definition, follow_ups |-> follow_ups,
     status |-> status]

CandidateGetAsPydantic(store, term) ==
    IF Lower(term) \notin DOMAIN store THEN None
    ELSE LET db_obj == store[Lower(term)]
         IN  CandidateterminusAnswer(db_obj.term, db_obj.definition,
                 _deserialize_follow_ups(db_obj.follow_ups), db_obj.status)

\* a save that updates a row without touching its status
CandidateSave_KeepsStatus(store, term, definition, follow_ups, status) ==
    LET key == Lower(term)
    IN  [k \in DOMAIN store \cup {key} |->
            IF k = key
            THEN [term |-> key, definition |-> definition,
                  follow_ups |-> _serialize_follow_ups(follow_ups),
                  status |-> IF key \in DOMAIN store THEN store[key].status
                             ELSE status]
            ELSE store[k]]

\* a save that leaves its own row as the only one of the table
CandidateSave_DropsOthers(store, term, definition, follow_ups, status) ==
    LET key == Lower(term)
    IN  [k \in {key} |->
            [term |-> key, definition |-> definition,
             follow_ups |-> _serialize_follow_ups(follow_ups),
             status |-> status]]

CandidateSave(store, term, definition, follow_ups, status) ==
    LET key == Lower(term)
    IN  [k \in DOMAIN store \cup {key} |->
            IF k = key
            THEN [term |-> key, definition |-> definition,
                  follow_ups |-> _serialize_follow_ups(follow_ups),
                  status |-> status]
            ELSE store[k]]

CandidateDelete(store, term) ==
    [k \in DOMAIN store \ {Lower(term)} |-> store[k]]

\* a rejection that removes the entry
CandidateReject_Deletes(store, term, reason) ==
    [k \in DOMAIN store \ {Lower(term)} |-> store[k]]

CandidateReject(store, term, reason) ==
    LET key == Lower(term)
    IN  [k \in DOMAIN store |->
            IF k = key THEN [store[k] EXCEPT !.status = "rejected: " \o reason]
            ELSE store[k]]

(***************************************************************************)
(* State.                                                                  *)
(*   terminus, candidate : the two tables                                  *)
(*   wf[w]               : the locals of background task w, its position,  *)
(*                         what the external services did in its current   *)
(*                         run (wiki_outcome, validation_outcome), whether *)
(*                         its term was stored when it started, the log of *)
(*                         its external calls and store writes, and        *)
(*                         whether an exception ended the run (dropped)    *)
(*                         Each task also records its database session  *)
(*                         (none, open, closed), who closed it (closes)    *)
(*                         and what became of the generator the session    *)
(*                         was taken from                                  *)
(*   cc                  : the POST /candidates request in flight          *)
(*   vc                  : the POST /candidates/validate request in flight *)
(*   ops                 : number of HTTP requests accepted so far         *)
(*   raced               : keys on which two operations have overlapped    *)
(*   resp                : the last answered request: its handler, its     *)
(*                         term, the status code of the response and its   *)
(*                         body                                            *)
(*   et                  : the POST /terms/extract request in flight       *)
(*   pt                  : the POST /terms/precompute request in flight    *)
(***************************************************************************)
VARIABLES terminus, candidate, wf, cc, vc, ops, raced, resp, et, pt

vars == <<terminus, candidate, wf, cc, vc, ops, raced, resp, et, pt>>

\* the requests of the terms router that are in flight
terms_router == <<et, pt>>

Workflows == 1..NumWorkflows

NoArgs == [definition |-> "", follow_ups |-> <<>>, status |-> ""]

IdleTask ==
    [pc |-> "idle", term |-> "", candidate_summary |-> "",
     validation_result |-> None, llm_answer |-> None,
     follow_ups_to_save |-> <<>>, save_args |-> NoArgs,
     wiki_outcome |-> "", validation_outcome |-> "",
     present_at_start |-> FALSE, calls |-> <<>>, writes |-> <<>>,
     dropped |-> FALSE, generator |-> "none", session |-> "none",
     closes |-> <<>>]

IdleRequest == [pc |-> "idle", term |-> "", definition |-> ""]

\* the locals of validate_terms: the phase-1 terms, the position of the
\* loop, the terms validated so far, and the log of what the critique
\* calls did
IdleExtraction ==
    [pc |-> "idle", candidate_terms |-> <<>>, i |-> 0, validated |-> <<>>,
     critiques |-> <<>>]

\* the locals of precompute_terms
IdlePrecompute ==
    [pc |-> "idle", validated_terms |-> <<>>, i |-> 0, added_terms |-> <<>>]

Init ==
    /\ terminus = <<>>
    /\ candidate = <<>>
    /\ wf = [w \in Workflows |-> IdleTask]
    /\ cc = IdleRequest
    /\ vc = IdleRequest
    /\ ops = 0
    /\ raced = {}
    /\ resp = [handler |-> "", term |-> "", status_code |-> 0, body |-> None]
    /\ et = IdleExtraction
    /\ pt = IdlePrecompute

Free(w) == wf[w].pc \in {"idle", "done"}

\* the slot a newly queued task takes: one no task has used, else the first
\* one whose task has returned, so that the log of a returned task is kept
\* as long as there is room
NextSlot ==
    CHOOSE x \in Workflows :
        /\ Free(x)
        /\ \A y \in Workflows :
              Free(y) => \/ wf[x].pc = "idle" /\ wf[y].pc = "done"
                         \/ wf[x].pc = wf[y].pc /\ x <= y

Response(handler, term, status_code) ==
    [handler |-> handler, term |-> term, status_code |-> status_code,
     body |-> None]

\* a response with a JSON body
ResponseWith(handler, term, status_code, body) ==
    [handler |-> handler, term |-> term, status_code |-> status_code,
     body |-> body]

(***************************************************************************)
(* The arguments of each candidate_service.save call of the background     *)
(* task.                                                                   *)
(***************************************************************************)
WikipediaErrorArgs(e) ==
    [definition |-> "Error fetching: " \o e, follow_ups |-> <<>>,
     status |-> "wikipedia_error: " \o Prefix(e, 200)]

\* the status without the truncation of the message
WikipediaFailedArgs_NoTruncation(candidate_summary) ==
    [definition |-> candidate_summary, follow_ups |-> <<>>,
     status |-> "wikipedia_failed: " \o candidate_summary]

WikipediaFailedArgs(candidate_summary) ==
    [definition |-> candidate_summary, follow_ups |-> <<>>,
     status |-> "wikipedia_failed: " \o Prefix(candidate_summary, 200)]

ValidationErrorArgs(candidate_summary, e) ==
    [definition |-> candidate_summary, follow_ups |-> <<>>,
     status |-> "validation_error: " \o Prefix(e, 200)]

\* the save without the fetched text
ValidationFailedArgs_NoDefinition(candidate_summary) ==
    [definition |-> "", follow_ups |-> <<>>,
     status |-> "validation_failed: LLM returned no result"]

ValidationFailedArgs(candidate_summary) ==
    [definition |-> candidate_summary, follow_ups |-> <<>>,
     status |-> "validation_failed: LLM returned no result"]

max_status_len == 255

\* the status of a reviewer's rejection instead of the LLM's
RejectedArgs_WrongPrefix(candidate_summary, reasoning) ==
    LET status_reason == "rejected: " \o reasoning
    IN  [definition |-> candidate_summary, follow_ups |-> <<>>,
         status |-> IF Len(status_reason) > max_status_len
                    THEN Prefix(status_reason, max_status_len - 3) \o "..."
                    ELSE status_reason]

\* a status cut at the limit before the ellipsis is added
RejectedArgs_CutsAtLimit(candidate_summary, reasoning) ==
    LET status_reason == "rejected_llm: " \o reasoning
    IN  [definition |-> candidate_summary, follow_ups |-> <<>>,
         status |-> IF Len(status_reason) > max_status_len
                    THEN Prefix(status_reason, max_status_len) \o "..."
                    ELSE status_reason]

\* the arguments of the save after an invalid verdict
RejectedArgs(candidate_summary, reasoning) ==
    LET status_reason == "rejected_llm: " \o reasoning
    IN  [definition |-> candidate_summary, follow_ups |-> <<>>,
         status |-> IF Len(status_reason) > max_status_len
                    THEN Prefix(status_reason, max_status_len - 3) \o "..."
                    ELSE status_reason]

\* the fallback without the follow-ups
SaveErrorArgs_NoFollowUps(candidate_summary, follow_ups_to_save, e) ==
    [definition |-> candidate_summary, follow_ups |-> <<>>,
     status |-> "save_to_official_error: " \o Prefix(e, 200)]

SaveErrorArgs(candidate_summary, follow_ups_to_save, e) ==
    [definition |-> candidate_summary, follow_ups |-> follow_ups_to_save,
     status |-> "save_to_official_error: " \o Prefix(e, 200)]

DbErrorMessage == "(sqlite3.OperationalError) database is locked"

(***************************************************************************)
(* Overlap of operations.  A background task is running from its first     *)
(* statement to its return; a request is in progress while it is suspended *)
(* at an await or between two commits.                                     *)
(***************************************************************************)
Running(w) == wf[w].pc \notin {"idle", "queued", "done"}

ActiveKeys ==
    {wf[w].term : w \in {x \in Workflows : Running(x)}}
        \cup (IF cc.pc = "awaiting" THEN {Lower(cc.term)} ELSE {})
        \cup (IF vc.pc = "promoting" THEN {Lower(vc.term)} ELSE {})

\* raced after an operation on key starts
Overlap(key) == IF key \in ActiveKeys THEN raced \cup {key} ELSE raced

\* handlers that start while another one is between its two commits
LoopFree_Always == TRUE

\* the handlers run on the event loop: none starts or resumes while the
\* validate_candidate handler, which never awaits, is between its two commits
LoopFree == vc.pc = "idle"

(***************************************************************************)
(* GET /definition/{term}                                                  *)
(***************************************************************************)
PlaceholderText == "I don't know yet, please check back later"

\* an answer that shows the content of a candidate
DefinitionAnswer_ShowsCandidate(term) ==
    LET lex_answer == TerminusGetAsPydantic(terminus, term)
        cand_answer == CandidateGetAsPydantic(candidate, term)
    IN  IF lex_answer # None THEN lex_answer
        ELSE IF cand_answer # None
        THEN terminusAnswer(cand_answer.term, cand_answer.definition,
                            cand_answer.follow_ups)
        ELSE terminusAnswer(term, PlaceholderText, <<>>)

\* the answer of GET /definition/{term} for the normalised term
DefinitionAnswer(term) ==
    LET lex_answer == TerminusGetAsPydantic(terminus, term)
    IN  IF lex_answer # None THEN lex_answer
        ELSE terminusAnswer(term, PlaceholderText, <<>>)

\* a lookup that consults the Term Store only
get_definition_IgnoresCandidates(raw) ==
    LET term == Lower(Strip(raw))
    IN  /\ ops' = ops + 1
        /\ resp' = ResponseWith("get_definition", term, 200,
                                DefinitionAnswer(term))
        /\ UNCHANGED <<terminus, candidate, cc, vc, raced>>
        /\ IF TerminusGetAsPydantic(terminus, term) # None
           THEN UNCHANGED wf
           ELSE /\ \E w \in Workflows : Free(w)
                /\ LET w == NextSlot
                   IN  wf' = [wf EXCEPT ![w] =
                                 [IdleTask EXCEPT !.pc = "queued",
                                                  !.term = term]]

\* a lookup that queues a background task for a term that is stored
get_definition_AlwaysSchedules(raw) ==
    LET term == Lower(Strip(raw))
    IN  /\ ops' = ops + 1
        /\ resp' = ResponseWith("get_definition", term, 200,
                                DefinitionAnswer(term))
        /\ UNCHANGED <<terminus, candidate, cc, vc, raced>>
        /\ IF FALSE
           THEN UNCHANGED wf
           ELSE /\ \E w \in Workflows : Free(w)
                /\ LET w == NextSlot
                   IN  wf' = [wf EXCEPT ![w] =
                                 [IdleTask EXCEPT !.pc = "queued",
                                                  !.term = term]]

\* a handler that queues one task per term at most: a term some task has
\* already tried is not tried again
get_definition_OncePerTerm(raw) ==
    LET term == Lower(Strip(raw))
    IN  /\ ops' = ops + 1
        /\ resp' = ResponseWith("get_definition", term, 200,
                                DefinitionAnswer(term))
        /\ UNCHANGED <<terminus, candidate, cc, vc, raced>>
        /\ IF \/ TerminusGetAsPydantic(terminus, term) # None
              \/ CandidateGetAsPydantic(candidate, term) # None
              \/ \E x \in Workflows : wf[x].pc = "done" /\ wf[x].term = term
           THEN UNCHANGED wf
           ELSE /\ \E w \in Workflows : Free(w)
                /\ LET w == NextSlot
                   IN  wf' = [wf EXCEPT ![w] =
                                 [IdleTask EXCEPT !.pc = "queued",
                                                  !.term = term]]

get_definition(raw) ==
    LET term == Lower(Strip(raw))
    IN  /\ ops' = ops + 1
        /\ resp' = ResponseWith("get_definition", term, 200,
                                DefinitionAnswer(term))
        /\ UNCHANGED <<terminus, candidate, cc, vc, raced>>
        /\ IF TerminusGetAsPydantic(terminus, term) # None
              \/ CandidateGetAsPydantic(candidate, term) # None
           THEN UNCHANGED wf
           ELSE /\ \E w \in Workflows : Free(w)
                /\ LET w == NextSlot
                   IN  wf' = [wf EXCEPT ![w] =
                                 [IdleTask EXCEPT !.pc = "queued",
                                                  !.term = term]]

(***************************************************************************)
(* DELETE /definition/{term} and DELETE /candidates/{term}                 *)
(***************************************************************************)
\* a delete that answers 204 whether or not there was an entry
delete_definition_Always204(term) ==
    /\ ops' = ops + 1
    /\ terminus' = TerminusDelete(terminus, term)
    /\ resp' = Response("delete_definition", term, 204)
    /\ raced' = Overlap(Lower(term))
    /\ UNCHANGED <<candidate, wf, cc, vc>>

delete_definition(term) ==
    /\ ops' = ops + 1
    /\ IF TerminusExists(terminus, term)
       THEN /\ terminus' = TerminusDelete(terminus, term)
            /\ resp' = Response("delete_definition", term, 204)
       ELSE /\ UNCHANGED terminus
            /\ resp' = Response("delete_definition", term, 404)
    /\ raced' = Overlap(Lower(term))
    /\ UNCHANGED <<candidate, wf, cc, vc>>

delete_candidate(term) ==
    /\ ops' = ops + 1
    /\ IF CandidateExists(candidate, term)
       THEN /\ candidate' = CandidateDelete(candidate, term)
            /\ resp' = Response("delete_candidate", term, 204)
       ELSE /\ UNCHANGED candidate
            /\ resp' = Response("delete_candidate", term, 404)
    /\ raced' = Overlap(Lower(term))
    /\ UNCHANGED <<terminus, wf, cc, vc>>

(***************************************************************************)
(* POST /candidates.  The handler checks both stores, then awaits the      *)
(* definition lookup, the term extraction and the sub-term lookups, and    *)
(* saves the candidate when it resumes.                                    *)
(***************************************************************************)
SubTerm(i) == "subterm " \o ToString(i)

\* what _extract_terms_async may return for a definition
ExtractedTermLists == {<<>>, [i \in 1..MaxFollowUps |-> SubTerm(i)]}

SubTermOutcome(t) ==
    [kind |-> "summary", text |-> "Definition of " \o t \o "."]

\* sub_terms[:3]
FirstThree(sub_terms) == SubSeq(sub_terms, 1, Min(3, Len(sub_terms)))

\* the definition of one follow-up term: a stored entry, else wikipedia
SubDefinition(t) ==
    IF TerminusExists(terminus, t) THEN TerminusGet(terminus, t).definition
    ELSE IF CandidateExists(candidate, t)
    THEN CandidateGet(candidate, t).definition
    ELSE query(t, SubTermOutcome(t)).value

CandidateFollowUps(sub_terms) ==
    [i \in 1..Len(FirstThree(sub_terms)) |->
        [term |-> sub_terms[i],
         question |-> "What is " \o sub_terms[i] \o "?",
         definition |-> SubDefinition(sub_terms[i])]]

\* a submission that is refused only for a term of the Term Store
create_candidate_OverwritesCandidate(term, definition) ==
    /\ cc.pc = "idle"
    /\ ops' = ops + 1
    /\ IF TerminusExists(terminus, term)
       THEN /\ resp' = Response("create_candidate", term, 409)
            /\ UNCHANGED <<cc, raced>>
       ELSE /\ cc' = [pc |-> "awaiting", term |-> term,
                      definition |-> definition]
            /\ raced' = Overlap(Lower(term))
            /\ UNCHANGED resp
    /\ UNCHANGED <<terminus, candidate, wf, vc>>

create_candidate(term, definition) ==
    /\ cc.pc = "idle"
    /\ ops' = ops + 1
    /\ IF TerminusExists(terminus, term) \/ CandidateExists(candidate, term)
       THEN /\ resp' = Response("create_candidate", term, 409)
            /\ UNCHANGED <<cc, raced>>
       ELSE /\ cc' = [pc |-> "awaiting", term |-> term,
                      definition |-> definition]
            /\ raced' = Overlap(Lower(term))
            /\ UNCHANGED resp
    /\ UNCHANGED <<terminus, candidate, wf, vc>>

\* a save with a status of its own
create_candidate_save_Draft ==
    /\ cc.pc = "awaiting"
    /\ \E o \in WikiOutcomes, sub_terms \in ExtractedTermLists :
          LET definition == IF cc.definition # "" THEN cc.definition
                            ELSE query(cc.term, o).value
          IN  candidate' = CandidateSave(candidate, cc.term, definition,
                               CandidateFollowUps(sub_terms), "draft")
    /\ cc' = IdleRequest
    /\ resp' = Response("create_candidate", cc.term, 201)
    /\ UNCHANGED <<terminus, wf, vc, ops, raced>>

create_candidate_save ==
    /\ cc.pc = "awaiting"
    /\ \E o \in WikiOutcomes, sub_terms \in ExtractedTermLists :
          LET definition == IF cc.definition # "" THEN cc.definition
                            ELSE query(cc.term, o).value
          IN  candidate' = CandidateSave(candidate, cc.term, definition,
                               CandidateFollowUps(sub_terms), "pending")
    /\ cc' = IdleRequest
    /\ resp' = Response("create_candidate", cc.term, 201)
    /\ UNCHANGED <<terminus, wf, vc, ops, raced>>

(***************************************************************************)
(* POST /candidates/validate.  The handler is synchronous; its commits are *)
(* separate transactions, so the database threads of the background tasks  *)
(* can run between the save and the delete of a promotion.                 *)
(***************************************************************************)
\* a rejection that does not look the candidate up first
validate_candidate_RejectsUnknown(term, approve, reason) ==
    /\ ops' = ops + 1
    /\ LET candidate_db_obj == CandidateGet(candidate, term)
       IN  IF candidate_db_obj = None /\ approve
           THEN /\ resp' = Response("validate_candidate", term, 404)
                /\ UNCHANGED <<terminus, candidate, vc, raced>>
           ELSE IF ~approve
           THEN /\ candidate' = CandidateReject(candidate, term,
                                                "Disapproved by user")
                /\ resp' = Response("validate_candidate", term, 400)
                /\ raced' = Overlap(Lower(term))
                /\ UNCHANGED <<terminus, vc>>
           ELSE /\ terminus' = TerminusSave(terminus, candidate_db_obj.term,
                                   candidate_db_obj.definition,
                                   _deserialize_follow_ups(
                                       candidate_db_obj.follow_ups))
                /\ vc' = [pc |-> "promoting", term |-> candidate_db_obj.term,
                          definition |-> ""]
                /\ raced' = Overlap(Lower(term))
                /\ UNCHANGED <<candidate, resp>>
    /\ UNCHANGED <<wf, cc>>

\* an approval that refuses a candidate already rejected
validate_candidate_RefusesRejected(term, approve, reason) ==
    /\ ops' = ops + 1
    /\ LET candidate_db_obj == CandidateGet(candidate, term)
       IN  IF candidate_db_obj = None
           THEN /\ resp' = Response("validate_candidate", term, 404)
                /\ UNCHANGED <<terminus, candidate, vc, raced>>
           ELSE IF ~approve \/ StartsWith(candidate_db_obj.status, "rejected")
           THEN /\ candidate' = CandidateReject(candidate, term,
                                                "Disapproved by user")
                /\ resp' = Response("validate_candidate", term, 400)
                /\ raced' = Overlap(Lower(term))
                /\ UNCHANGED <<terminus, vc>>
           ELSE /\ terminus' = TerminusSave(terminus, candidate_db_obj.term,
                                   candidate_db_obj.definition,
                                   _deserialize_follow_ups(
                                       candidate_db_obj.follow_ups))
                /\ vc' = [pc |-> "promoting", term |-> candidate_db_obj.term,
                          definition |-> ""]
                /\ raced' = Overlap(Lower(term))
                /\ UNCHANGED <<candidate, resp>>
    /\ UNCHANGED <<wf, cc>>

\* the handler never reads validation.reason
validate_candidate(term, approve, reason) ==
    /\ ops' = ops + 1
    /\ LET candidate_db_obj == CandidateGet(candidate, term)
       IN  IF candidate_db_obj = None
           THEN /\ resp' = Response("validate_candidate", term, 404)
                /\ UNCHANGED <<terminus, candidate, vc, raced>>
           ELSE IF ~approve
           THEN /\ candidate' = CandidateReject(candidate, term,
                                                "Disapproved by user")
                /\ resp' = Response("validate_candidate", term, 400)
                /\ raced' = Overlap(Lower(term))
                /\ UNCHANGED <<terminus, vc>>
           ELSE /\ terminus' = TerminusSave(terminus, candidate_db_obj.term,
                                   candidate_db_obj.definition,
                                   _deserialize_follow_ups(
                                       candidate_db_obj.follow_ups))
                /\ vc' = [pc |-> "promoting", term |-> candidate_db_obj.term,
                          definition |-> ""]
                /\ raced' = Overlap(Lower(term))
                /\ UNCHANGED <<candidate, resp>>
    /\ UNCHANGED <<wf, cc>>

validate_candidate_delete ==
    /\ vc.pc = "promoting"
    /\ candidate' = CandidateDelete(candidate, vc.term)
    /\ resp' = Response("validate_candidate", vc.term,
                      IF TerminusExists(terminus, vc.term) THEN 200 ELSE 500)
    /\ vc' = IdleRequest
    /\ UNCHANGED <<terminus, wf, cc, ops, raced>>

(***************************************************************************)
(* _fetch_validate_and_store_definition, one action per await.             *)
(***************************************************************************)
\* the task returns through its finally block, which closes the session:
\* its locals are gone, the log of the run is kept
Finished(task) ==
    [IdleTask EXCEPT !.pc = "done", !.term = task.term,
                     !.present_at_start = task.present_at_start,
                     !.calls = task.calls, !.writes = task.writes,
                     !.dropped = task.dropped,
                     !.generator = task.generator,
                     !.session = "closed",
                     !.closes = Append(task.closes, "finally")]

\* an exception reaches a handler that logs it, and the task returns
Dropped(task) == Finished([task EXCEPT !.dropped = TRUE])

Called(task, service) == [task EXCEPT !.calls = Append(@, service)]

Wrote(task, store, ok) ==
    [task EXCEPT !.writes = Append(@, [store |-> store, ok |-> ok])]

\* what becomes of the generator that next(get_session()) leaves suspended
\* at its yield with no reference to it: an interpreter that counts
\* references finalizes it as soon as next has returned, which runs the
\* finally block of get_session and closes the session before the task has
\* used it; under another collector it stays suspended during the run
GeneratorFates == {"finalized", "suspended"}

\* the tasks of one process run on one interpreter
SameInterpreter(fate) ==
    \A v \in Workflows : wf[v].generator \in {"none", fate}

\* term normalisation and creation of the session and the services
WfBegin(w) ==
    /\ wf[w].pc = "queued"
    /\ \E term \in {Lower(Strip(wf[w].term))}, fate \in GeneratorFates :
          /\ SameInterpreter(fate)
          /\ wf' = [wf EXCEPT ![w].pc = "check_official",
                              ![w].term = term,
                              ![w].generator = fate,
                              ![w].session =
                                  IF fate = "finalized" THEN "closed"
                                  ELSE "open",
                              ![w].closes =
                                  IF fate = "finalized" THEN <<"get_session">>
                                  ELSE <<>>,
                              ![w].present_at_start =
                                  \/ TerminusExists(terminus, term)
                                  \/ CandidateExists(candidate, term)]
          /\ raced' = Overlap(term)
    /\ UNCHANGED <<terminus, candidate, cc, vc, ops, resp>>

\* the pre-check without its early return
WfCheckOfficial_NoReturn(w) ==
    /\ wf[w].pc = "check_official"
    /\ wf' = [wf EXCEPT ![w].pc = "check_candidate"]
    /\ UNCHANGED <<terminus, candidate, cc, vc, ops, raced, resp>>

\* terminus_service.exists, the first use of the session, which begins a
\* transaction on it whether or not it has been closed before; when the
\* query raises, the outermost handler logs the exception
WfCheckOfficial(w) ==
    /\ wf[w].pc = "check_official"
    /\ \E ok \in BOOLEAN :
          wf' = [wf EXCEPT ![w] =
                    IF ~ok THEN Dropped(@)
                    ELSE IF TerminusExists(terminus, wf[w].term)
                    THEN Finished(@)
                    ELSE [@ EXCEPT !.pc = "check_candidate",
                                   !.session = "open"]]
    /\ UNCHANGED <<terminus, candidate, cc, vc, ops, raced, resp>>

\* the pre-check without its early return
WfCheckCandidate_NoReturn(w) ==
    /\ wf[w].pc = "check_candidate"
    /\ wf' = [wf EXCEPT ![w].pc = "fetch"]
    /\ UNCHANGED <<terminus, candidate, cc, vc, ops, raced, resp>>

\* candidate_service.exists
WfCheckCandidate(w) ==
    /\ wf[w].pc = "check_candidate"
    /\ \E ok \in BOOLEAN :
          wf' = [wf EXCEPT ![w] =
                    IF ~ok THEN Dropped(@)
                    ELSE IF CandidateExists(candidate, wf[w].term)
                    THEN Finished(@)
                    ELSE [@ EXCEPT !.pc = "fetch"]]
    /\ UNCHANGED <<terminus, candidate, cc, vc, ops, raced, resp>>

\* the fetch without the branch for the message of an empty term
AfterFetch_NoEmptyCheck(task, q) ==
    IF q.raised
    THEN [task EXCEPT !.pc = "save_candidate",
                      !.save_args = WikipediaErrorArgs(q.message)]
    ELSE IF StartsWith(q.value, "Could not find")
            \/ StartsWith(q.value, "An error occurred")
    THEN [task EXCEPT !.pc = "save_candidate",
                      !.candidate_summary = q.value,
                      !.save_args = WikipediaFailedArgs(q.value)]
    ELSE [task EXCEPT !.pc = "validate", !.candidate_summary = q.value]

AfterFetch(task, q) ==
    IF q.raised
    THEN [task EXCEPT !.pc = "save_candidate",
                      !.save_args = WikipediaErrorArgs(q.message)]
    ELSE IF StartsWith(q.value, "Could not find")
            \/ StartsWith(q.value, "An error occurred")
    THEN [task EXCEPT !.pc = "save_candidate",
                      !.candidate_summary = q.value,
                      !.save_args = WikipediaFailedArgs(q.value)]
    ELSE IF StartsWith(q.value, "Please provide")
    THEN Finished(task)
    ELSE [task EXCEPT !.pc = "validate", !.candidate_summary = q.value]

WfFetch(w) ==
    /\ wf[w].pc = "fetch"
    /\ \E o \in WikiOutcomes :
          wf' = [wf EXCEPT ![w] =
                    AfterFetch([Called(@, "wikipedia") EXCEPT
                                   !.wiki_outcome = o.kind],
                               query(wf[w].term, o))]
    /\ UNCHANGED <<terminus, candidate, cc, vc, ops, raced, resp>>

\* the follow-up client is called whatever the verdict
AfterValidation_IgnoresVerdict(task, v) ==
    IF v.raised
    THEN [task EXCEPT !.pc = "save_candidate",
                      !.save_args =
                          ValidationErrorArgs(task.candidate_summary, v.message)]
    ELSE IF v.value.kind = "None"
    THEN [task EXCEPT !.pc = "save_candidate",
                      !.save_args = ValidationFailedArgs(task.candidate_summary)]
    ELSE [task EXCEPT !.pc = "followups", !.validation_result = v.value]

\* the branches after validate_definition: error, no result, valid, invalid
AfterValidation(task, v) ==
    IF v.raised
    THEN [task EXCEPT !.pc = "save_candidate",
                      !.save_args =
                          ValidationErrorArgs(task.candidate_summary, v.message)]
    ELSE IF v.value.kind = "None"
    THEN [task EXCEPT !.pc = "save_candidate",
                      !.save_args = ValidationFailedArgs(task.candidate_summary)]
    ELSE IF v.value.is_valid
    THEN [task EXCEPT !.pc = "followups", !.validation_result = v.value]
    ELSE [task EXCEPT !.pc = "save_candidate",
                      !.validation_result = v.value,
                      !.save_args = RejectedArgs(task.candidate_summary,
                                                 v.value.reasoning)]

WfValidate(w) ==
    /\ wf[w].pc = "validate"
    /\ \E o \in ValidationOutcomes :
          wf' = [wf EXCEPT ![w] =
                    AfterValidation([Called(@, "validation") EXCEPT
                                        !.validation_outcome = o.kind],
                        validate_definition(wf[w].term,
                                            wf[w].candidate_summary, o))]
    /\ UNCHANGED <<terminus, candidate, cc, vc, ops, raced, resp>>

\* the follow-ups in reverse order
FollowUpsToSave_Reversed(llm_answer) ==
    IF llm_answer.raised THEN <<>>
    ELSE IF llm_answer.value.kind # "None" /\ llm_answer.value.follow_ups # <<>>
    THEN [i \in 1..Len(llm_answer.value.follow_ups) |->
             model_dump(llm_answer.value.follow_ups[
                 Len(llm_answer.value.follow_ups) + 1 - i])]
    ELSE <<>>

\* follow_ups_to_save after the call of the follow-up client
FollowUpsToSave(llm_answer) ==
    IF llm_answer.raised THEN <<>>
    ELSE IF llm_answer.value.kind # "None" /\ llm_answer.value.follow_ups # <<>>
    THEN [i \in 1..Len(llm_answer.value.follow_ups) |->
             model_dump(llm_answer.value.follow_ups[i])]
    ELSE <<>>

\* a failure of the follow-up client sends the definition to the candidates
AfterFollowups_DiscardOnFailure(task, llm_answer) ==
    IF llm_answer.raised
    THEN [task EXCEPT !.pc = "save_candidate",
                      !.save_args =
                          [definition |-> task.candidate_summary,
                           follow_ups |-> <<>>,
                           status |-> "followup_error: "
                                          \o Prefix(llm_answer.message, 200)]]
    ELSE [task EXCEPT !.pc = "save_official",
                      !.llm_answer = llm_answer.value,
                      !.follow_ups_to_save = FollowUpsToSave(llm_answer)]

\* whatever the follow-up client did, the task goes on to the official save
AfterFollowups(task, llm_answer) ==
    [task EXCEPT !.pc = "save_official",
                 !.llm_answer = llm_answer.value,
                 !.follow_ups_to_save = FollowUpsToSave(llm_answer)]

WfFollowups(w) ==
    /\ wf[w].pc = "followups"
    /\ \E o \in FollowUpOutcomes :
          wf' = [wf EXCEPT ![w] =
                    AfterFollowups(Called(@, "followups"),
                        generate_followups(wf[w].term,
                                           wf[w].candidate_summary, o))]
    /\ UNCHANGED <<terminus, candidate, cc, vc, ops, raced, resp>>

\* a save that raises after the row has been committed
WfSaveOfficial_RaisesAfterCommit(w) ==
    /\ wf[w].pc = "save_official"
    /\ terminus' = TerminusSave(terminus, wf[w].term, wf[w].candidate_summary,
                                wf[w].follow_ups_to_save)
    /\ \E ok \in BOOLEAN :
          wf' = [wf EXCEPT ![w] =
                    IF ok THEN Finished(Wrote(@, "terminus", TRUE))
                    ELSE [Wrote(@, "terminus", FALSE) EXCEPT
                             !.pc = "save_candidate",
                             !.save_args =
                                 SaveErrorArgs(wf[w].candidate_summary,
                                               wf[w].follow_ups_to_save,
                                               DbErrorMessage)]]
    /\ UNCHANGED <<candidate, cc, vc, ops, raced, resp>>

\* a save that also records the stored definition as a candidate
WfSaveOfficial_AlsoSavesCandidate(w) ==
    /\ wf[w].pc = "save_official"
    /\ \E ok \in BOOLEAN :
          IF ok
          THEN /\ terminus' = TerminusSave(terminus, wf[w].term,
                                  wf[w].candidate_summary,
                                  wf[w].follow_ups_to_save)
               /\ candidate' = CandidateSave(candidate, wf[w].term,
                                   wf[w].candidate_summary,
                                   wf[w].follow_ups_to_save, "pending")
               /\ wf' = [wf EXCEPT ![w] =
                            Finished(Wrote(Wrote(@, "terminus", TRUE),
                                           "candidate", TRUE))]
          ELSE /\ UNCHANGED <<terminus, candidate>>
               /\ wf' = [wf EXCEPT ![w] =
                            [Wrote(@, "terminus", FALSE) EXCEPT
                                !.pc = "save_candidate",
                                !.save_args =
                                    SaveErrorArgs(wf[w].candidate_summary,
                                                  wf[w].follow_ups_to_save,
                                                  DbErrorMessage)]]
    /\ UNCHANGED <<cc, vc, ops, raced, resp>>

\* terminus_service.save; when the commit raises nothing is stored and the
\* task falls back to the candidate store
WfSaveOfficial(w) ==
    /\ wf[w].pc = "save_official"
    /\ \E ok \in BOOLEAN :
          IF ok
          THEN /\ terminus' = TerminusSave(terminus, wf[w].term,
                                  wf[w].candidate_summary,
                                  wf[w].follow_ups_to_save)
               /\ wf' = [wf EXCEPT ![w] = Finished(Wrote(@, "terminus", TRUE))]
          ELSE /\ UNCHANGED terminus
               /\ wf' = [wf EXCEPT ![w] =
                            [Wrote(@, "terminus", FALSE) EXCEPT
                                !.pc = "save_candidate",
                                !.save_args =
                                    SaveErrorArgs(wf[w].candidate_summary,
                                                  wf[w].follow_ups_to_save,
                                                  DbErrorMessage)]]
    /\ UNCHANGED <<candidate, cc, vc, ops, raced, resp>>

\* a failed save whose exception leaves the task
WfSaveCandidate_Propagates(w) ==
    /\ wf[w].pc = "save_candidate"
    /\ \E ok \in BOOLEAN :
          /\ candidate' =
                IF ok
                THEN CandidateSave(candidate, wf[w].term,
                                   wf[w].save_args.definition,
                                   wf[w].save_args.follow_ups,
                                   wf[w].save_args.status)
                ELSE candidate
          /\ wf' = [wf EXCEPT ![w] =
                       IF ok THEN Finished(Wrote(@, "candidate", TRUE))
                       ELSE [Wrote(@, "candidate", FALSE) EXCEPT
                                !.pc = "raised"]]
    /\ UNCHANGED <<terminus, cc, vc, ops, raced, resp>>

\* candidate_service.save with the arguments of the branch taken; when the
\* commit raises the exception is logged and the task ends
WfSaveCandidate(w) ==
    /\ wf[w].pc = "save_candidate"
    /\ \E ok \in BOOLEAN :
          /\ candidate' =
                IF ok
                THEN CandidateSave(candidate, wf[w].term,
                                   wf[w].save_args.definition,
                                   wf[w].save_args.follow_ups,
                                   wf[w].save_args.status)
                ELSE candidate
          /\ wf' = [wf EXCEPT ![w] =
                       IF ok THEN Finished(Wrote(@, "candidate", TRUE))
                       ELSE Dropped(Wrote(@, "candidate", FALSE))]
    /\ UNCHANGED <<terminus, cc, vc, ops, raced, resp>>

WfStep(w) ==
    \/ WfBegin(w)
    \/ WfCheckOfficial(w)
    \/ WfCheckCandidate(w)
    \/ WfFetch(w)
    \/ WfValidate(w)
    \/ WfFollowups(w)
    \/ WfSaveOfficial(w)
    \/ WfSaveCandidate(w)

RequestTerms == {"GDP"}

UserDefinitions == {"", "GDP is the total output of a country."}

\* the reasons a reviewer gives in a CandidateValidation
ValidationReasons == {"Disapproved by user", "Definition is outdated."}

\* the requests a client may send
Requests ==
    \/ \E raw \in RawTerms : get_definition(raw)
    \/ \E term \in RequestTerms : delete_definition(term)
    \/ \E term \in RequestTerms : delete_candidate(term)
    \/ \E term \in RequestTerms, definition \in UserDefinitions :
          create_candidate(term, definition)
    \/ \E term \in RequestTerms, approve \in BOOLEAN,
          reason \in ValidationReasons :
          validate_candidate(term, approve, reason)

\* one server process: a handler starts or resumes only when the event loop
\* is free; the background tasks' awaits and database threads run at any time
Next ==
    \/ LoopFree /\ ops < MaxOps /\ Requests /\ UNCHANGED terms_router
    \/ LoopFree /\ create_candidate_save /\ UNCHANGED terms_router
    \/ validate_candidate_delete /\ UNCHANGED terms_router
    \/ \E w \in Workflows : WfStep(w) /\ UNCHANGED terms_router

Spec == Init /\ [][Next]_vars

\* the event loop resumes every background task whose awaited call has
\* returned or raised, and every awaited call does one or the other
FairSpec ==
    Spec /\ \A w \in Workflows : WF_vars(WfStep(w) /\ UNCHANGED terms_router)

\* the same server process with one more request, enough for a promotion to
\* meet a background task that is already past its first pre-check
RaceNext ==
    \/ LoopFree /\ ops < MaxRaceOps /\ Requests /\ UNCHANGED terms_router
    \/ LoopFree /\ create_candidate_save /\ UNCHANGED terms_router
    \/ validate_candidate_delete /\ UNCHANGED terms_router
    \/ \E w \in Workflows : WfStep(w) /\ UNCHANGED terms_router

RaceSpec == Init /\ [][RaceNext]_vars

\* the database is a file that every process started from the package opens:
\* a second server process answers DELETE /definition/{term} on the same
\* tables while this process is between the two commits of a promotion
SharedDbNext ==
    \/ RaceNext
    \/ /\ ~LoopFree
       /\ ops < MaxRaceOps
       /\ \E term \in RequestTerms : delete_definition(term)
       /\ UNCHANGED terms_router

SharedDbSpec == Init /\ [][SharedDbNext]_vars

(***************************************************************************)
(* POST /terms/extract and TermExtractionService.validate_terms: one       *)
(* action per await.                                                       *)
(***************************************************************************)
ExtractableTerms == {"GDP", "gdp", "inflation"}

\* the phase-1 lists: every sequence of at most MaxTerms terms
TermLists ==
    UNION {[1..n -> ExtractableTerms] : n \in 0..MaxTerms}

\* what the phase-1 call does: a response, no response, or an exception
ExtractionOutcomes ==
    [kind : {"ok"}, terms : TermLists]
        \cup {[kind |-> "none", terms |-> <<>>],
              [kind |-> "conn_error", terms |-> <<>>],
              [kind |-> "llm_error", terms |-> <<>>]}

\* what one critique call does
CritiqueOutcomes == {"relevant", "not_relevant", "error"}

\* a critique whose failure counts as relevant
_critique_term_FailOpen(o) == o # "not_relevant"

\* is_relevant of the response; an exception is logged and gives False
_critique_term(o) == o = "relevant"

\* the handler awaits validate_terms, which awaits the phase-1 call
extract_terms ==
    /\ et.pc = "idle"
    /\ ops' = ops + 1
    /\ et' = [IdleExtraction EXCEPT !.pc = "extracting"]
    /\ UNCHANGED <<terminus, candidate, wf, cc, vc, raced, resp, pt>>

\* the answer of the handler for the validated terms
ExtractAnswer(x) ==
    [handler |-> "extract_terms", term |-> "", status_code |-> 200,
     body |-> [terms |-> [n \in 1..Len(x.validated) |->
                            [term |-> x.validated[n]]]],
     args |-> x]

\* validate_terms has raised: the request fails
ExtractFailure(x) ==
    [handler |-> "extract_terms", term |-> "", status_code |-> 500,
     body |-> None, args |-> x]

\* the phase-1 call returns or raises: generate_response re-raises an
\* APIConnectionError and, for any other exception, builds an
\* ExtractedTerms without its required field, which raises as well
validate_terms_extraction(o) ==
    /\ et.pc = "extracting"
    /\ IF o.kind \in {"conn_error", "llm_error"}
       THEN /\ resp' = ExtractFailure(et)
            /\ et' = IdleExtraction
       ELSE IF o.kind = "none" \/ o.terms = <<>>
       THEN /\ resp' = ExtractAnswer([et EXCEPT !.candidate_terms = o.terms])
            /\ et' = IdleExtraction
       ELSE /\ et' = [et EXCEPT !.pc = "critique", !.i = 1,
                                !.candidate_terms = o.terms]
            /\ UNCHANGED resp
    /\ UNCHANGED <<terminus, candidate, wf, cc, vc, ops, raced, pt>>

\* one turn of the loop of validate_terms
Critiqued(x, o) ==
    [x EXCEPT !.validated = IF _critique_term(o)
                            THEN Append(@, x.candidate_terms[x.i]) ELSE @,
              !.critiques = Append(@, o),
              !.i = @ + 1]

validate_terms_critique(o) ==
    /\ et.pc = "critique"
    /\ IF et.i = Len(et.candidate_terms)
       THEN /\ resp' = ExtractAnswer(Critiqued(et, o))
            /\ et' = IdleExtraction
       ELSE /\ et' = Critiqued(et, o)
            /\ UNCHANGED resp
    /\ UNCHANGED <<terminus, candidate, wf, cc, vc, ops, raced, pt>>

ExtractNext ==
    \/ ops < MaxExtractOps /\ extract_terms
    \/ \E o \in ExtractionOutcomes : validate_terms_extraction(o)
    \/ \E o \in CritiqueOutcomes : validate_terms_critique(o)

ExtractSpec == Init /\ [][ExtractNext]_vars

(***************************************************************************)
(* POST /terms/precompute.  The handler awaits validate_terms, then for     *)
(* each validated term checks both stores and, for a term in neither,      *)
(* awaits the lookups and saves a pending candidate.  One action per       *)
(* stretch of the handler between two awaits.                              *)
(***************************************************************************)
\* what validate_terms may return to the handler
ValidatedTermLists ==
    UNION {[1..n -> ExtractableTerms] : n \in 0..MaxPrecomputeTerms}

\* what _extract_terms_async may return for the definition of term
RelatedTermLists(term) == ExtractedTermLists \cup {<<term, SubTerm(1)>>}

\* indexes of related_terms[:3] without the term itself, in order
RECURSIVE KeptSubTerms(_, _, _)
KeptSubTerms(term, related_terms, n) ==
    IF n = 0 THEN <<>>
    ELSE IF Lower(related_terms[n]) = Lower(term)
    THEN KeptSubTerms(term, related_terms, n - 1)
    ELSE Append(KeptSubTerms(term, related_terms, n - 1), related_terms[n])

PrecomputeFollowUps(term, related_terms) ==
    LET kept == KeptSubTerms(term, related_terms,
                             Len(FirstThree(related_terms)))
    IN  [n \in 1..Len(kept) |->
            [term |-> kept[n],
             question |-> "What is " \o kept[n] \o "?",
             definition |-> query(kept[n], SubTermOutcome(kept[n])).value]]

\* an existence check that looks in the Term Store only
RECURSIVE FirstUnknown_TermStoreOnly(_, _, _, _)
FirstUnknown_TermStoreOnly(validated_terms, n, official, candidates) ==
    IF n > Len(validated_terms) THEN n
    ELSE IF TerminusGet(official, validated_terms[n]) # None
    THEN FirstUnknown_TermStoreOnly(validated_terms, n + 1, official,
                                    candidates)
    ELSE n

\* the first position from n on whose term is in neither store, or one past
\* the end
RECURSIVE FirstUnknown(_, _, _, _)
FirstUnknown(validated_terms, n, official, candidates) ==
    IF n > Len(validated_terms) THEN n
    ELSE IF TerminusGet(official, validated_terms[n]) # None
            \/ CandidateGet(candidates, validated_terms[n]) # None
    THEN FirstUnknown(validated_terms, n + 1, official, candidates)
    ELSE n

PrecomputeAnswer(added_terms) ==
    ResponseWith("precompute_terms", "", 200,
                 [added_terms |-> added_terms,
                  message |-> "Precompute completed"])

\* the loop from position n until its next await or its end
PrecomputeLoop(x, n, official, candidates) ==
    LET j == FirstUnknown(x.validated_terms, n, official, candidates)
    IN  IF j > Len(x.validated_terms)
        THEN /\ pt' = IdlePrecompute
             /\ resp' = PrecomputeAnswer(x.added_terms)
        ELSE /\ pt' = [x EXCEPT !.pc = "fetching", !.i = j]
             /\ UNCHANGED resp

precompute_terms ==
    /\ pt.pc = "idle"
    /\ ops' = ops + 1
    /\ pt' = [IdlePrecompute EXCEPT !.pc = "extracting"]
    /\ UNCHANGED <<terminus, candidate, wf, cc, vc, raced, resp, et>>

\* validate_terms returns, or raises what its phase-1 call raised
precompute_terms_validated ==
    /\ pt.pc = "extracting"
    /\ \/ /\ pt' = IdlePrecompute
          /\ resp' = Response("precompute_terms", "", 500)
       \/ \E validated_terms \in ValidatedTermLists :
             PrecomputeLoop([pt EXCEPT !.validated_terms = validated_terms],
                            1, terminus, candidate)
    /\ UNCHANGED <<terminus, candidate, wf, cc, vc, ops, raced, et>>

\* a save that first looks whether the term has been stored meanwhile
precompute_terms_save_Rechecks ==
    /\ pt.pc = "fetching"
    /\ LET term == pt.validated_terms[pt.i]
       IN  \E o \in WikiOutcomes :
              \/ /\ pt' = IdlePrecompute
                 /\ resp' = Response("precompute_terms", term, 500)
                 /\ UNCHANGED candidate
              \/ \E related_terms \in RelatedTermLists(term) :
                    IF TerminusGet(terminus, term) # None
                       \/ CandidateGet(candidate, term) # None
                    THEN /\ UNCHANGED candidate
                         /\ PrecomputeLoop(pt, pt.i + 1, terminus, candidate)
                    ELSE
                    /\ candidate' =
                          CandidateSave(candidate, term, query(term, o).value,
                              PrecomputeFollowUps(term, related_terms),
                              "pending")
                    /\ PrecomputeLoop(
                          [pt EXCEPT !.added_terms = Append(@, term)],
                          pt.i + 1, terminus, candidate')
    /\ UNCHANGED <<terminus, wf, cc, vc, ops, raced, et>>

\* the lookups return: the candidate is saved and the loop goes on;
\* _extract_terms_async may raise instead, which ends the request
precompute_terms_save ==
    /\ pt.pc = "fetching"
    /\ LET term == pt.validated_terms[pt.i]
       IN  \E o \in WikiOutcomes :
              \/ /\ pt' = IdlePrecompute
                 /\ resp' = Response("precompute_terms", term, 500)
                 /\ UNCHANGED candidate
              \/ \E related_terms \in RelatedTermLists(term) :
                    /\ candidate' =
                          CandidateSave(candidate, term, query(term, o).value,
                              PrecomputeFollowUps(term, related_terms),
                              "pending")
                    /\ PrecomputeLoop(
                          [pt EXCEPT !.added_terms = Append(@, term)],
                          pt.i + 1, terminus, candidate')
    /\ UNCHANGED <<terminus, wf, cc, vc, ops, raced, et>>

\* the whole API of one server process
TermsNext ==
    \/ LoopFree /\ ops < MaxTermsOps /\ Requests /\ UNCHANGED terms_router
    \/ LoopFree /\ ops < MaxTermsOps /\ precompute_terms
    \/ LoopFree /\ create_candidate_save /\ UNCHANGED terms_router
    \/ LoopFree /\ precompute_terms_validated
    \/ LoopFree /\ precompute_terms_save
    \/ validate_candidate_delete /\ UNCHANGED terms_router
    \/ \E w \in Workflows : WfStep(w) /\ UNCHANGED terms_router

TermsSpec == Init /\ [][TermsNext]_vars

(***************************************************************************)
(* The two store services on their own: every method called with every     *)
(* argument of a small set, in any order.                                  *)
(***************************************************************************)
StoreTerms == {"gdp", "GDP", " GDP "}

StoreDefinitions == {"Gross domestic product.", "A monetary measure."}

StoreFollowUps ==
    {<<>>,
     <<[term |-> "inflation", question |-> "What is inflation?",
        definition |-> "A rise of prices."]>>}

StoreStatuses == {"pending", "under_review"}

\* the value a bool-returning method hands back
Bool(b) == [value |-> b]

\* the arguments of a call besides the term
Args(definition, follow_ups, status) ==
    [definition |-> definition, follow_ups |-> follow_ups, status |-> status]

\* a method of a service has been called with term and args and has returned
\* result
MethodCall(method, term, args, result) ==
    /\ ops < MaxStoreOps
    /\ ops' = ops + 1
    /\ resp' = [handler |-> method, term |-> term, status_code |-> 0,
                body |-> result, args |-> args]
    /\ UNCHANGED <<wf, cc, vc, raced, et, pt>>

terminusService_get(term) ==
    /\ MethodCall("terminusService.get", term, NoArgs, TerminusGet(terminus, term))
    /\ UNCHANGED <<terminus, candidate>>

terminusService_exists(term) ==
    /\ MethodCall("terminusService.exists", term, NoArgs,
                  Bool(TerminusExists(terminus, term)))
    /\ UNCHANGED <<terminus, candidate>>

terminusService_save(term, definition, follow_ups) ==
    /\ MethodCall("terminusService.save", term,
                  Args(definition, follow_ups, ""), None)
    /\ terminus' = TerminusSave(terminus, term, definition, follow_ups)
    /\ UNCHANGED candidate

terminusService_delete(term) ==
    /\ MethodCall("terminusService.delete", term, NoArgs,
                  Bool(TerminusGet(terminus, term) # None))
    /\ terminus' = TerminusDelete(terminus, term)
    /\ UNCHANGED candidate

CandidateterminusService_get(term) ==
    /\ MethodCall("CandidateterminusService.get", term, NoArgs,
                  CandidateGet(candidate, term))
    /\ UNCHANGED <<terminus, candidate>>

CandidateterminusService_exists(term) ==
    /\ MethodCall("CandidateterminusService.exists", term, NoArgs,
                  Bool(CandidateExists(candidate, term)))
    /\ UNCHANGED <<terminus, candidate>>

CandidateterminusService_save(term, definition, follow_ups, status) ==
    /\ MethodCall("CandidateterminusService.save", term,
                  Args(definition, follow_ups, status), None)
    /\ candidate' = CandidateSave(candidate, term, definition, follow_ups,
                                  status)
    /\ UNCHANGED terminus

CandidateterminusService_delete(term) ==
    /\ MethodCall("CandidateterminusService.delete", term, NoArgs,
                  Bool(CandidateGet(candidate, term) # None))
    /\ candidate' = CandidateDelete(candidate, term)
    /\ UNCHANGED terminus

CandidateterminusService_reject(term) ==
    /\ MethodCall("CandidateterminusService.reject", term, NoArgs, None)
    /\ candidate' = CandidateReject(candidate, term, "No reason provided")
    /\ UNCHANGED terminus

StoreNext ==
    \E term \in StoreTerms :
       \/ terminusService_get(term)
       \/ terminusService_exists(term)
       \/ terminusService_delete(term)
       \/ CandidateterminusService_get(term)
       \/ CandidateterminusService_exists(term)
       \/ CandidateterminusService_delete(term)
       \/ CandidateterminusService_reject(term)
       \/ \E definition \in StoreDefinitions, follow_ups \in StoreFollowUps :
             \/ terminusService_save(term, definition, follow_ups)
             \/ \E status \in StoreStatuses :
                   CandidateterminusService_save(term, definition, follow_ups,
                                                 status)

StoreSpec == Init /\ [][StoreNext]_vars

(***************************************************************************)
(* Properties.                                                             *)
(***************************************************************************)
InBoth(key) == key \in DOMAIN terminus /\ key \in DOMAIN candidate

\* task w returns in this step
Finishes(w) == Running(w) /\ wf'[w].pc = "done"

WroteOk(task, store) ==
    \E i \in 1..Len(task.writes) :
        task.writes[i] = [store |-> store, ok |-> TRUE]

AllWritesOk(task) == \A i \in 1..Len(task.writes) : task.writes[i].ok

Quiet ==
    /\ \A w \in Workflows : ~Running(w)
    /\ cc.pc = "idle"
    /\ vc.pc = "idle"

\* C1: when a background task returns after a run that no other operation on
\* its term overlapped and in which it persisted a record, its term is in
\* exactly one of the two stores, whichever branch it took.
C1_ExactlyOneStoreAfterRun ==
    [][\A w \in Workflows :
          (/\ Finishes(w)
           /\ wf'[w].term \notin raced'
           /\ WroteOk(wf'[w], "terminus") \/ WroteOk(wf'[w], "candidate"))
          => (wf'[w].term \in DOMAIN terminus')
                 # (wf'[w].term \in DOMAIN candidate')]_vars

\* a task that took the official-save fallback without overlap has left its
\* term in the candidate store only
C1_Witness ==
    \E w \in Workflows :
        /\ wf[w].pc = "done"
        /\ wf[w].term \notin raced
        /\ wf[w].writes = <<[store |-> "terminus", ok |-> FALSE],
                            [store |-> "candidate", ok |-> TRUE]>>
        /\ wf[w].term \in DOMAIN candidate
        /\ wf[w].term \notin DOMAIN terminus

C3_StoredTermIsNoOp ==
    \A w \in Workflows :
        (wf[w].present_at_start /\ wf[w].term \notin raced)
            => wf[w].calls = <<>> /\ wf[w].writes = <<>>

\* a task has returned from a run that found its term stored with a failure
\* status
C3_Witness ==
    \E w \in Workflows :
        /\ wf[w].pc = "done"
        /\ wf[w].present_at_start
        /\ wf[w].term \notin raced
        /\ wf[w].term \in DOMAIN candidate
        /\ StartsWith(candidate[wf[w].term].status, "wikipedia_failed")
        /\ wf[w].calls = <<>>
        /\ wf[w].writes = <<>>

\* task w returns in this step from a committed candidate_service.save
SavedCandidate(w) ==
    /\ wf[w].pc = "save_candidate"
    /\ wf'[w].pc = "done"
    /\ wf'[w].writes[Len(wf'[w].writes)] = [store |-> "candidate", ok |-> TRUE]

NoWriteTo(task, store) ==
    \A i \in 1..Len(task.writes) : task.writes[i].store # store

NotCalled(task, service) ==
    \A i \in 1..Len(task.calls) : task.calls[i] # service

IsValid(task) ==
    task.validation_result # None /\ task.validation_result.is_valid

IsInvalid(task) ==
    task.validation_result # None /\ ~task.validation_result.is_valid

\* the follow-ups the follow-up client returned
ClientFollowUps(task) ==
    IF task.llm_answer = None THEN <<>> ELSE task.llm_answer.follow_ups

\* C4: a task whose definition source returned text D and whose validation
\* verdict was valid, and whose store write did not fail, returns with a Term
\* Store entry for its term holding exactly D and the follow-ups the follow-up
\* client returned, in that order; unless another operation on the term
\* overlapped the run, the Candidate Store has no entry for the term.
C4_ValidDefinitionStored ==
    [][\A w \in Workflows :
          (Finishes(w) /\ IsValid(wf[w]) /\ AllWritesOk(wf'[w]))
          => /\ wf[w].candidate_summary \in Summaries
             /\ wf[w].term \in DOMAIN terminus'
             /\ terminus'[wf[w].term].definition = wf[w].candidate_summary
             /\ _deserialize_follow_ups(terminus'[wf[w].term].follow_ups)
                    = ClientFollowUps(wf[w])
             /\ (wf[w].term \notin raced'
                    => wf[w].term \notin DOMAIN candidate')]_vars

\* a task has stored a validated definition with all the follow-ups of the
\* client
C4_Witness ==
    \E w \in Workflows :
        /\ wf[w].pc = "done"
        /\ wf[w].writes = <<[store |-> "terminus", ok |-> TRUE]>>
        /\ wf[w].term \notin raced
        /\ wf[w].term \in DOMAIN terminus
        /\ wf[w].term \notin DOMAIN candidate
        /\ terminus[wf[w].term].definition \in Summaries
        /\ _deserialize_follow_ups(terminus[wf[w].term].follow_ups)
               = FollowUpsForward(MaxFollowUps)

FollowUpFailed(task) ==
    task.llm_answer = None \/ task.llm_answer.follow_ups = <<>>

\* C5: after a valid verdict, when the follow-up client raises or returns no
\* follow-ups the task still goes on to the official save with an empty
\* follow-up list, and (its store write not failing) returns with a Term Store
\* entry holding the validated definition and no follow-ups, having written
\* nothing to the Candidate Store.
C5_FollowUpFailureKeepsDefinition ==
    [][\A w \in Workflows :
          /\ (wf[w].pc = "followups" /\ wf'[w].pc # "followups")
             => /\ wf'[w].pc = "save_official"
                /\ wf'[w].candidate_summary = wf[w].candidate_summary
                /\ FollowUpFailed(wf'[w]) => wf'[w].follow_ups_to_save = <<>>
          /\ (/\ Finishes(w)
              /\ wf[w].pc = "save_official"
              /\ FollowUpFailed(wf[w])
              /\ AllWritesOk(wf'[w]))
             => /\ wf[w].term \in DOMAIN terminus'
                /\ terminus'[wf[w].term].definition = wf[w].candidate_summary
                /\ terminus'[wf[w].term].follow_ups.json = <<>>
                /\ NoWriteTo(wf'[w], "candidate")]_vars

\* a task that called the follow-up client has stored its definition in the
\* Term Store with no follow-ups
C5_Witness ==
    \E w \in Workflows :
        /\ wf[w].pc = "done"
        /\ wf[w].calls = <<"wikipedia", "validation", "followups">>
        /\ wf[w].writes = <<[store |-> "terminus", ok |-> TRUE]>>
        /\ wf[w].term \in DOMAIN terminus
        /\ wf[w].term \notin DOMAIN candidate
        /\ terminus[wf[w].term].definition \in Summaries
        /\ terminus[wf[w].term].follow_ups.json = <<>>

NotFoundMessage(term) ==
    "Could not find a relevant Wikipedia page for '" \o term \o "'."

\* C6 as stated: after a soft not-found answer the candidate's status is
\* `wikipedia_failed: ` followed by the message; the validation and follow-up
\* clients are not called and the Term Store is not written.
C6_StatusIsWholeMessage ==
    [][\A w \in Workflows :
          (SavedCandidate(w) /\ wf[w].wiki_outcome = "none")
          => /\ candidate'[wf[w].term].status
                    = "wikipedia_failed: " \o NotFoundMessage(wf[w].term)
             /\ wf'[w].calls = <<"wikipedia">>
             /\ NoWriteTo(wf'[w], "terminus")]_vars

\* C6 amended: the status is `wikipedia_failed: ` followed by the first 200
\* characters of the message; the whole message is the entry's definition.
C6_StatusIsMessagePrefix ==
    [][\A w \in Workflows :
          /\ (wf[w].pc = "fetch" /\ wf'[w].pc # "fetch"
                  /\ wf'[w].wiki_outcome = "none" /\ wf[w].term # "")
             => wf'[w].pc = "save_candidate"
          /\ (SavedCandidate(w) /\ wf[w].wiki_outcome = "none")
             => /\ candidate'[wf[w].term].status
                       = "wikipedia_failed: "
                             \o Prefix(NotFoundMessage(wf[w].term), 200)
                /\ candidate'[wf[w].term].definition
                       = NotFoundMessage(wf[w].term)
                /\ candidate'[wf[w].term].follow_ups.json = <<>>
                /\ wf'[w].calls = <<"wikipedia">>
                /\ NoWriteTo(wf'[w], "terminus")]_vars

\* two not-found answers have been recorded, one with a message of more than
\* 200 characters and one with a shorter message
C6_Witness ==
    /\ Lower(LongTerm) \in DOMAIN candidate
    /\ candidate[Lower(LongTerm)].definition = NotFoundMessage(Lower(LongTerm))
    /\ Len(candidate[Lower(LongTerm)].definition) > 200
    /\ Len(candidate[Lower(LongTerm)].status) = 218
    /\ "gdp" \in DOMAIN candidate
    /\ candidate["gdp"].status = "wikipedia_failed: " \o NotFoundMessage("gdp")
    /\ \A w \in Workflows : wf[w].pc = "done" /\ wf[w].calls = <<"wikipedia">>

LookupErrorMessage(term) ==
    "An error occurred while searching Wikipedia for '" \o term \o "'."

C8_TransportFailureIsValidationError ==
    [][\A w \in Workflows :
          (SavedCandidate(w) /\ wf[w].validation_outcome = "conn_error")
          => StartsWith(candidate'[wf[w].term].status,
                        "validation_error: ")]_vars

\* C9: when the validation call yields no structured result the task goes on
\* to the candidate save and (the save not failing) returns with a Candidate
\* Store entry holding the fetched text, no follow-ups and a status of the form
\* `validation_failed: ...`, having written nothing to the Term Store.
C9_NoResultIsValidationFailed ==
    [][\A w \in Workflows :
          /\ (wf[w].pc = "validate" /\ wf'[w].pc # "validate"
                  /\ wf'[w].validation_outcome \in {"conn_error", "llm_error"})
             => wf'[w].pc = "save_candidate"
          /\ (/\ SavedCandidate(w)
              /\ wf[w].validation_outcome \in {"conn_error", "llm_error"})
             => /\ wf[w].candidate_summary \in Summaries
                /\ candidate'[wf[w].term].definition = wf[w].candidate_summary
                /\ candidate'[wf[w].term].follow_ups.json = <<>>
                /\ StartsWith(candidate'[wf[w].term].status,
                              "validation_failed: ")
                /\ NoWriteTo(wf'[w], "terminus")]_vars

\* a validation without result has been recorded
C9_Witness ==
    \E w \in Workflows :
        /\ wf[w].pc = "done"
        /\ wf[w].calls = <<"wikipedia", "validation">>
        /\ wf[w].writes = <<[store |-> "candidate", ok |-> TRUE]>>
        /\ wf[w].term \in DOMAIN candidate
        /\ wf[w].term \notin DOMAIN terminus
        /\ candidate[wf[w].term].definition \in Summaries
        /\ candidate[wf[w].term].status
               = "validation_failed: LLM returned no result"

\* status is `rejected_llm: ` followed by the reasoning, whole or cut and
\* closed by "..."
RejectedStatus(status, reasoning) ==
    LET full == "rejected_llm: " \o reasoning
        body == SubSeq(status, 1, Len(status) - 3)
    IN  \/ status = full
        \/ /\ Len(status) > Len("rejected_llm: ") + 3
           /\ SubSeq(status, Len(status) - 2, Len(status)) = "..."
           /\ Len(body) < Len(full)
           /\ StartsWith(full, body)

\* C10: after an invalid verdict with reasoning R the task goes on to the
\* candidate save and never calls the follow-up client nor writes the Term
\* Store; (the save not failing) it returns with a Candidate Store entry
\* holding the fetched text, no follow-ups and a status `rejected_llm: `
\* followed by R, possibly truncated.
C10_InvalidVerdictIsRejected ==
    [][\A w \in Workflows :
          /\ (wf[w].pc = "validate" /\ IsInvalid(wf'[w]))
             => wf'[w].pc = "save_candidate"
          /\ (Finishes(w) /\ IsInvalid(wf[w]))
             => /\ NotCalled(wf'[w], "followups")
                /\ NoWriteTo(wf'[w], "terminus")
          /\ (SavedCandidate(w) /\ IsInvalid(wf[w]))
             => /\ wf[w].candidate_summary \in Summaries
                /\ candidate'[wf[w].term].definition = wf[w].candidate_summary
                /\ candidate'[wf[w].term].follow_ups.json = <<>>
                /\ RejectedStatus(candidate'[wf[w].term].status,
                                  wf[w].validation_result.reasoning)]_vars

\* a rejection with a reasoning too long for the status has been recorded
C10_Witness ==
    \E w \in Workflows :
        /\ wf[w].pc = "done"
        /\ wf[w].calls = <<"wikipedia", "validation">>
        /\ wf[w].writes = <<[store |-> "candidate", ok |-> TRUE]>>
        /\ wf[w].term \in DOMAIN candidate
        /\ wf[w].term \notin DOMAIN terminus
        /\ candidate[wf[w].term].definition \in Summaries
        /\ Len(candidate[wf[w].term].status) = max_status_len
        /\ RejectedStatus(candidate[wf[w].term].status, LongReasoning)

\* the Term Store write of task w fails in this step
OfficialSaveFails(w) ==
    wf[w].pc = "save_official" /\ wf'[w].pc = "save_candidate"

\* the last write the task attempted was a failed Term Store write
OfficialSaveFailed(task) ==
    /\ task.writes # <<>>
    /\ task.writes[Len(task.writes)] = [store |-> "terminus", ok |-> FALSE]

\* C11: when the Term Store write of a validated definition fails, the Term
\* Store is left as it was and the task goes on to a Candidate Store write
\* with the same definition and follow-ups; when that write succeeds the
\* candidate entry of the term holds them, with a status that starts with
\* `save_to_official_error: `.
C11_OfficialSaveFallback ==
    [][\A w \in Workflows :
          /\ OfficialSaveFails(w)
             => /\ terminus' = terminus
                /\ wf'[w].candidate_summary = wf[w].candidate_summary
                /\ wf'[w].follow_ups_to_save = wf[w].follow_ups_to_save
          /\ (SavedCandidate(w) /\ OfficialSaveFailed(wf[w]))
             => /\ IsValid(wf[w])
                /\ wf[w].term \in DOMAIN candidate'
                /\ candidate'[wf[w].term].definition = wf[w].candidate_summary
                /\ candidate'[wf[w].term].follow_ups
                       = _serialize_follow_ups(wf[w].follow_ups_to_save)
                /\ wf[w].follow_ups_to_save
                       = [i \in 1..Len(ClientFollowUps(wf[w])) |->
                             model_dump(ClientFollowUps(wf[w])[i])]
                /\ StartsWith(candidate'[wf[w].term].status,
                              "save_to_official_error: ")
                /\ terminus' = terminus]_vars

\* a fallback has written the validated definition with its follow-ups to the
\* Candidate Store, and the term is not in the Term Store
C11_Witness ==
    \E w \in Workflows :
        /\ wf[w].pc = "done"
        /\ wf[w].writes = <<[store |-> "terminus", ok |-> FALSE],
                            [store |-> "candidate", ok |-> TRUE]>>
        /\ wf[w].term \in DOMAIN candidate
        /\ wf[w].term \notin DOMAIN terminus
        /\ candidate[wf[w].term].definition \in Summaries
        /\ Len(candidate[wf[w].term].follow_ups.json) = MaxFollowUps
        /\ candidate[wf[w].term].status
               = "save_to_official_error: " \o DbErrorMessage

\* task w, started or waiting to start, takes a step
Steps(w) == wf[w].pc \notin {"idle", "done"} /\ wf'[w] # wf[w]

\* C12: a task whose term is empty after trimming changes neither store in
\* any of its steps, attempts no store write and calls neither the validation
\* nor the follow-up client.
C12_EmptyTermPersistsNothing ==
    [][\A w \in Workflows :
          (Steps(w) /\ wf[w].term = "")
          => /\ terminus' = terminus
             /\ candidate' = candidate
             /\ wf'[w].term = ""
             /\ wf'[w].writes = <<>>
             /\ NotCalled(wf'[w], "validation")
             /\ NotCalled(wf'[w], "followups")
             /\ wf'[w].pc \notin {"validate", "followups", "save_official",
                                   "save_candidate"}]_vars

\* the task of a blank term has asked the definition source, which answered
\* with its message for an empty term, and has returned
C12_Witness ==
    \E w \in Workflows :
        /\ wf[w].pc = "done"
        /\ wf[w].term = ""
        /\ wf[w].calls = <<"wikipedia">>
        /\ wf[w].writes = <<>>
        /\ ~wf[w].dropped
        /\ "" \notin DOMAIN terminus \cup DOMAIN candidate

\* C13: under the event loop's scheduling every scheduled background task
\* returns, whatever the stores, the definition source and the LLM clients
\* do; a run that an exception ended has left no record.
C13_EveryRunFinishes ==
    /\ \A w \in Workflows : (wf[w].pc = "queued") ~> (wf[w].pc = "done")
    /\ [](\A w \in Workflows :
              (wf[w].pc = "done" /\ wf[w].dropped)
              => ~WroteOk(wf[w], "terminus") /\ ~WroteOk(wf[w], "candidate"))

\* a task has returned after its Term Store write and its fallback Candidate
\* Store write both failed
C13_Witness ==
    \E w \in Workflows :
        /\ wf[w].pc = "done"
        /\ wf[w].dropped
        /\ wf[w].calls = <<"wikipedia", "validation", "followups">>
        /\ wf[w].writes = <<[store |-> "terminus", ok |-> FALSE],
                            [store |-> "candidate", ok |-> FALSE]>>
        /\ wf[w].term \notin DOMAIN terminus \cup DOMAIN candidate

\* task w returns in this step from a run for a non-empty term that asked the
\* definition source and did not write the Term Store
FailedAttempt(w) ==
    /\ Finishes(w)
    /\ wf[w].term # ""
    /\ wf'[w].calls # <<>>
    /\ ~WroteOk(wf'[w], "terminus")

\* a GET schedules a task only for a term that neither store holds
SchedulesOnlyUnknownTerms ==
    \A w \in Workflows :
        (wf'[w].pc = "queued" /\ wf[w].pc # "queued")
        => wf'[w].term \notin DOMAIN terminus \cup DOMAIN candidate

\* C14 as stated: every failed resolution attempt for a non-empty term leaves
\* a Candidate Store record for the term, and a GET for a term with a record
\* schedules no task.
C14_FailedAttemptLeavesRecord ==
    [][/\ \A w \in Workflows :
             FailedAttempt(w) => wf[w].term \in DOMAIN candidate'
       /\ SchedulesOnlyUnknownTerms]_vars

\* C14 amended: a failed attempt that no exception ended leaves a Candidate
\* Store record for its term; one that an exception ended has written no
\* record; a GET schedules a task only for a term that neither store holds.
C14_FailedAttemptLeavesRecordUnlessDropped ==
    [][/\ \A w \in Workflows :
             FailedAttempt(w)
             => IF wf'[w].dropped
                THEN ~WroteOk(wf'[w], "candidate")
                ELSE /\ WroteOk(wf'[w], "candidate")
                     /\ wf[w].term \in DOMAIN candidate'
       /\ SchedulesOnlyUnknownTerms]_vars

\* a failed attempt has left a candidate record, and the GET for the term that
\* followed it has scheduled no task
C14_Witness ==
    /\ ops = 2
    /\ resp.handler = "get_definition"
    /\ resp.term = "gdp"
    /\ resp.status_code = 200
    /\ wf[1].pc = "done"
    /\ wf[1].term = "gdp"
    /\ ~wf[1].dropped
    /\ wf[1].writes = <<[store |-> "candidate", ok |-> TRUE]>>
    /\ "gdp" \in DOMAIN candidate
    /\ "gdp" \notin DOMAIN terminus
    /\ \A w \in Workflows \ {1} : wf[w].pc = "idle"

\* the two steps of a promotion
PromotionSaves == vc.pc = "idle" /\ vc'.pc = "promoting"

PromotionDeletes == vc.pc = "promoting" /\ vc'.pc = "idle"

\* C15: approving the candidate of a term writes a Term Store entry with the
\* candidate's definition and its follow-ups in the same order, whatever the
\* candidate's status; the second step removes the candidate and, unless
\* another operation on the term overlapped, leaves that Term Store entry and
\* answers 200.
C15_PromotionRoundTrip ==
    [][/\ PromotionSaves
          => /\ vc'.term \in DOMAIN candidate
             /\ vc'.term \in DOMAIN terminus'
             /\ terminus'[vc'.term].definition = candidate[vc'.term].definition
             /\ terminus'[vc'.term].follow_ups = candidate[vc'.term].follow_ups
             /\ candidate' = candidate
       /\ PromotionDeletes
          => /\ vc.term \notin DOMAIN candidate'
             /\ vc.term \notin raced'
                => /\ vc.term \in DOMAIN candidate
                   /\ vc.term \in DOMAIN terminus'
                   /\ terminus'[vc.term].definition
                          = candidate[vc.term].definition
                   /\ terminus'[vc.term].follow_ups
                          = candidate[vc.term].follow_ups
                   /\ resp' = Response("validate_candidate", vc.term, 200)]_vars

\* a candidate with three follow-ups has been promoted
C15_Witness ==
    /\ resp = Response("validate_candidate", "gdp", 200)
    /\ vc.pc = "idle"
    /\ "gdp" \notin raced
    /\ "gdp" \notin DOMAIN candidate
    /\ "gdp" \in DOMAIN terminus
    /\ terminus["gdp"].definition \in UserDefinitions
    /\ Len(terminus["gdp"].follow_ups.json) = 3
    /\ terminus["gdp"].follow_ups.json[1].term = SubTerm(1)
    /\ terminus["gdp"].follow_ups.json[3].term = SubTerm(3)

\* POST /candidates/validate is answered with status_code in this step
ValidateAnswers(status_code) ==
    /\ ops' = ops + 1
    /\ UNCHANGED <<cc, vc, wf>>
    /\ resp'.handler = "validate_candidate"
    /\ resp'.status_code = status_code

\* C16: a rejection (answered 400) leaves the Term Store unchanged and keeps
\* every candidate entry; the rejected candidate keeps its definition and
\* follow-ups and gets the status `rejected: Disapproved by user`; no other
\* candidate changes.
C16_RejectionKeepsCandidate ==
    [][ValidateAnswers(400)
       => LET key == Lower(resp'.term)
          IN  /\ terminus' = terminus
              /\ key \in DOMAIN candidate
              /\ DOMAIN candidate' = DOMAIN candidate
              /\ candidate'[key].definition = candidate[key].definition
              /\ candidate'[key].follow_ups = candidate[key].follow_ups
              /\ candidate'[key].term = candidate[key].term
              /\ StartsWith(candidate'[key].status, "rejected: ")
              /\ candidate'[key].status = "rejected: Disapproved by user"
              /\ \A k \in DOMAIN candidate \ {key} :
                     candidate'[k] = candidate[k]]_vars

\* a pending candidate with follow-ups has been rejected and is still there
C16_Witness ==
    /\ resp = Response("validate_candidate", "GDP", 400)
    /\ "gdp" \in DOMAIN candidate
    /\ "gdp" \notin DOMAIN terminus
    /\ candidate["gdp"].status = "rejected: Disapproved by user"
    /\ candidate["gdp"].definition \in UserDefinitions \ {""}
    /\ Len(candidate["gdp"].follow_ups.json) = 3

\* C17: POST /candidates/validate for a term without a candidate entry is
\* answered 404 and changes neither store, whatever the approve flag and
\* whether or not the term is in the Term Store: a 404 changes nothing and
\* is given for an absent candidate, and every other outcome of the request
\* (rejection, promotion) happens only for a term that has a candidate.
C17_UnknownCandidateNotFound ==
    [][/\ ValidateAnswers(404)
          => /\ Lower(resp'.term) \notin DOMAIN candidate
             /\ UNCHANGED <<terminus, candidate, vc>>
       /\ ValidateAnswers(400) => Lower(resp'.term) \in DOMAIN candidate
       /\ PromotionSaves => Lower(vc'.term) \in DOMAIN candidate]_vars

\* a term that is in the Term Store and has no candidate has been answered 404
C17_Witness ==
    /\ resp = Response("validate_candidate", "GDP", 404)
    /\ "gdp" \in DOMAIN terminus
    /\ "gdp" \notin DOMAIN candidate

\* C18: a promotion that is answered 500, the Term Store not holding the
\* entry after the write, leaves the candidate entry present and unchanged,
\* and no promotion ends with the term in neither store.
C18_SaveErrorKeepsCandidate ==
    [][PromotionDeletes
       => LET key == Lower(vc.term)
          IN  /\ resp'.status_code = 500
                 => /\ key \in DOMAIN candidate'
                    /\ key \in DOMAIN candidate
                    /\ candidate'[key] = candidate[key]
              /\ key \in DOMAIN terminus' \cup DOMAIN candidate']_vars

\* task w reads a store with exists in this step and the query returns
StoreRead(w) ==
    /\ wf[w].pc \in {"check_official", "check_candidate"}
    /\ wf'[w] # wf[w]
    /\ ~wf'[w].dropped

\* C19 as stated: between the Term Store write and the Candidate Store delete
\* of a promotion of T no read of a store is executed while T is in both
\* stores.
C19_NoReadDuringPromotion ==
    [][\A w \in Workflows :
          /\ vc.pc = "promoting"
          /\ wf[w].term = Lower(vc.term)
          /\ StoreRead(w)
          => ~InBoth(wf[w].term)]_vars

\* C19: between the two commits of a promotion no other request handler of
\* the server process runs, so no request reads the stores then; only the
\* promotion's own delete and the steps of background tasks, whose exists
\* reads run in worker threads and can see T in both stores, happen.
C19_OnlyTasksRunDuringPromotion ==
    [][vc.pc = "promoting"
       => /\ ops' = ops
          /\ cc' = cc
          /\ \/ PromotionDeletes /\ wf' = wf /\ terminus' = terminus
             \/ /\ UNCHANGED <<vc, resp>>
                /\ \E w \in Workflows :
                      /\ wf'[w] # wf[w]
                      /\ \A x \in Workflows \ {w} : wf'[x] = wf[x]]_vars

\* a promotion has written the Term Store, the candidate is still there and
\* a background task for the same term is about to read the Candidate Store
C19_Witness ==
    /\ vc.pc = "promoting"
    /\ InBoth(Lower(vc.term))
    /\ \E w \in Workflows :
          /\ wf[w].pc = "check_candidate"
          /\ wf[w].term = Lower(vc.term)

\* C20: every entry of the Term Store and of the Candidate Store has at most
\* 3 follow-ups, whichever path wrote it and however many follow-ups the
\* follow-up client returned.
C20_AtMostThreeFollowUps ==
    /\ \A k \in DOMAIN terminus : Len(terminus[k].follow_ups.json) <= 3
    /\ \A k \in DOMAIN candidate : Len(candidate[k].follow_ups.json) <= 3

\* GET /definition/{term} is answered in this step
DefinitionAnswered ==
    /\ ops' = ops + 1
    /\ resp'.handler = "get_definition"
    /\ UNCHANGED <<cc, vc>>

StoredAnswer(row) ==
    terminusAnswer(row.term, row.definition,
                   _deserialize_follow_ups(row.follow_ups))

\* C21 as stated: the answer is the stored entry when the term is in either
\* store, except for a candidate with status `pending`, and the placeholder
\* otherwise.
C21_AnswersCachedEntry ==
    [][DefinitionAnswered
       => LET term == resp'.term
          IN  resp'.body =
                 IF term \in DOMAIN terminus THEN StoredAnswer(terminus[term])
                 ELSE IF /\ term \in DOMAIN candidate
                         /\ candidate[term].status # "pending"
                 THEN StoredAnswer(candidate[term])
                 ELSE terminusAnswer(term, PlaceholderText, <<>>)]_vars

\* C21: the answer is the Term Store entry when the term is there; when it
\* is only a candidate, whatever its status, or in neither store, the answer
\* is the placeholder with no follow-ups.
C21_AnswersTermStoreEntryOnly ==
    [][DefinitionAnswered
       => LET term == resp'.term
          IN  /\ resp'.status_code = 200
              /\ resp'.body =
                    IF term \in DOMAIN terminus
                    THEN StoredAnswer(terminus[term])
                    ELSE terminusAnswer(term, PlaceholderText, <<>>)]_vars

\* a term that is only a candidate with a status other than pending has been
\* answered with the placeholder
C21_Witness ==
    /\ resp.handler = "get_definition"
    /\ resp.term = "gdp"
    /\ "gdp" \notin DOMAIN terminus
    /\ "gdp" \in DOMAIN candidate
    /\ candidate["gdp"].status # "pending"
    /\ candidate["gdp"].definition # PlaceholderText
    /\ resp.body = terminusAnswer("gdp", PlaceholderText, <<>>)

\* exactly one background task is queued in this step, for term
QueuesTask(term) ==
    \E w \in Workflows :
       /\ Free(w)
       /\ wf'[w].pc = "queued"
       /\ wf'[w].term = term
       /\ \A x \in Workflows \ {w} : wf'[x] = wf[x]

\* C22: GET /definition/{term} queues a background task exactly when the
\* normalised term is in neither store at the time of the request; a hit in
\* either store queues nothing, and the handler writes to neither store.
C22_SchedulesIffUnknown ==
    [][DefinitionAnswered
       => LET term == resp'.term
          IN  /\ UNCHANGED <<terminus, candidate>>
              /\ IF term \in DOMAIN terminus \cup DOMAIN candidate
                 THEN wf' = wf
                 ELSE QueuesTask(term)]_vars

\* the second lookup of a term that has become a candidate queued nothing
C22_Witness ==
    /\ ops = 2
    /\ resp.handler = "get_definition"
    /\ resp.term = "gdp"
    /\ "gdp" \in DOMAIN candidate
    /\ "gdp" \notin DOMAIN terminus
    /\ \E w \in Workflows : wf[w].pc = "done" /\ wf[w].term = "gdp"
    /\ \A w \in Workflows : wf[w].pc \in {"idle", "done"}

\* POST /candidates is accepted in this step: the handler starts its lookups
SubmissionAccepted == cc.pc = "idle" /\ cc'.pc = "awaiting"

\* POST /candidates is refused with 409 in this step
SubmissionRefused ==
    /\ ops' = ops + 1
    /\ resp'.handler = "create_candidate"
    /\ resp'.status_code = 409
    /\ UNCHANGED <<cc, vc, wf>>

\* C23: POST /candidates for a term that is in the Term Store or in the
\* Candidate Store is answered 409 and changes neither store, with or
\* without a definition: a request is accepted only for a term in neither
\* store, and a refusal is given for a stored term and leaves both stores
\* as they were.
C23_ExistingTermConflict ==
    [][/\ SubmissionAccepted
          => Lower(cc'.term) \notin DOMAIN terminus \cup DOMAIN candidate
       /\ SubmissionRefused
          => /\ Lower(resp'.term) \in DOMAIN terminus \cup DOMAIN candidate
             /\ UNCHANGED <<terminus, candidate>>]_vars

\* a submission for a term of the Term Store has been refused
C23_Witness ==
    /\ resp = Response("create_candidate", "GDP", 409)
    /\ "gdp" \in DOMAIN terminus
    /\ "gdp" \notin DOMAIN candidate

\* the request of handler is answered in this step
DeleteAnswered(handler) ==
    /\ ops' = ops + 1
    /\ resp'.handler = handler
    /\ UNCHANGED <<cc, vc, wf>>

\* store after is store before without key, which it held
Removed(before, after, key) ==
    /\ key \in DOMAIN before
    /\ DOMAIN after = DOMAIN before \ {key}
    /\ \A k \in DOMAIN after : after[k] = before[k]

\* C24: DELETE /definition/{term} removes the Term Store entry and answers
\* 204 when the entry exists, answers 404 and changes nothing when it does
\* not, and never touches the Candidate Store; DELETE /candidates/{term}
\* does the same on the Candidate Store and never touches the Term Store.
C24_DeleteRemovesOrNotFound ==
    [][/\ DeleteAnswered("delete_definition")
          => /\ candidate' = candidate
             /\ IF Lower(resp'.term) \in DOMAIN terminus
                THEN /\ resp'.status_code = 204
                     /\ Removed(terminus, terminus', Lower(resp'.term))
                ELSE /\ resp'.status_code = 404
                     /\ terminus' = terminus
       /\ DeleteAnswered("delete_candidate")
          => /\ terminus' = terminus
             /\ IF Lower(resp'.term) \in DOMAIN candidate
                THEN /\ resp'.status_code = 204
                     /\ Removed(candidate, candidate', Lower(resp'.term))
                ELSE /\ resp'.status_code = 404
                     /\ candidate' = candidate]_vars

\* the entry a background task stored has been deleted and answered 204
C24_Witness ==
    /\ resp = Response("delete_definition", "GDP", 204)
    /\ "gdp" \notin DOMAIN terminus
    /\ \E w \in Workflows :
          wf[w].pc = "done" /\ wf[w].term = "gdp" /\ WroteOk(wf[w], "terminus")

\* the trimmed and lower-cased form of a term
Normalized(s) == Strip(Lower(s))

\* C25: every operation of both stores called with a term addresses the
\* entry that the operation called with the trimmed and lower-cased term
\* addresses: whatever the stores hold, get and exists give the same result
\* for a term and for its normalised form.
C25_TrimmedAndLowercasedKeys ==
    \A term \in StoreTerms :
       /\ TerminusGet(terminus, term) = TerminusGet(terminus, Normalized(term))
       /\ TerminusExists(terminus, term)
             = TerminusExists(terminus, Normalized(term))
       /\ CandidateGet(candidate, term)
             = CandidateGet(candidate, Normalized(term))
       /\ CandidateExists(candidate, term)
             = CandidateExists(candidate, Normalized(term))

\* method of a service is called in this step
Calls(method) == ops' = ops + 1 /\ resp'.handler = method

\* after is before with the row of key replaced by row, nothing else changed
Replaced(before, after, key, row) ==
    /\ DOMAIN after = DOMAIN before \cup {key}
    /\ after[key] = row
    /\ \A k \in DOMAIN before \ {key} : after[k] = before[k]

\* after is before without key, nothing else changed
Without(before, after, key) ==
    /\ DOMAIN after = DOMAIN before \ {key}
    /\ \A k \in DOMAIN after : after[k] = before[k]

\* C26: save is an upsert that replaces the whole row of its key and leaves
\* every other row alone, delete removes the row of its key and nothing
\* else, get returns the one row of the key or nothing, and exists is true
\* exactly when get returns a row; so after any sequence of saves and
\* deletes get returns the content of the latest save of the key unless a
\* delete followed it.
C26_SaveIsUpsert ==
    [][/\ Calls("terminusService.save")
          => /\ Replaced(terminus, terminus', Lower(resp'.term),
                         [term |-> Lower(resp'.term),
                          definition |-> resp'.args.definition,
                          follow_ups |-> [json |-> resp'.args.follow_ups]])
             /\ TerminusExists(terminus', resp'.term)
       /\ Calls("CandidateterminusService.save")
          => /\ Replaced(candidate, candidate', Lower(resp'.term),
                         [term |-> Lower(resp'.term),
                          definition |-> resp'.args.definition,
                          follow_ups |-> [json |-> resp'.args.follow_ups],
                          status |-> resp'.args.status])
             /\ CandidateExists(candidate', resp'.term)
       /\ Calls("terminusService.delete")
          => /\ Without(terminus, terminus', Lower(resp'.term))
             /\ TerminusGet(terminus', resp'.term) = None
             /\ resp'.body = Bool(Lower(resp'.term) \in DOMAIN terminus)
       /\ Calls("CandidateterminusService.delete")
          => /\ Without(candidate, candidate', Lower(resp'.term))
             /\ CandidateGet(candidate', resp'.term) = None
             /\ resp'.body = Bool(Lower(resp'.term) \in DOMAIN candidate)
       /\ Calls("terminusService.get")
          => /\ UNCHANGED <<terminus, candidate>>
             /\ resp'.body = IF Lower(resp'.term) \in DOMAIN terminus
                             THEN terminus[Lower(resp'.term)] ELSE None
             /\ TerminusExists(terminus, resp'.term) <=> resp'.body # None
       /\ Calls("CandidateterminusService.get")
          => /\ UNCHANGED <<terminus, candidate>>
             /\ resp'.body = IF Lower(resp'.term) \in DOMAIN candidate
                             THEN candidate[Lower(resp'.term)] ELSE None
             /\ CandidateExists(candidate, resp'.term) <=> resp'.body # None
       /\ Calls("terminusService.exists")
          => /\ UNCHANGED <<terminus, candidate>>
             /\ resp'.body = Bool(TerminusGet(terminus, resp'.term) # None)
       /\ Calls("CandidateterminusService.exists")
          => /\ UNCHANGED <<terminus, candidate>>
             /\ resp'.body = Bool(CandidateGet(candidate, resp'.term) # None)
      ]_vars

\* a row saved with follow-ups has been saved again without them and read
C26_Witness ==
    /\ ops = 3
    /\ resp.handler = "terminusService.get"
    /\ resp.term = "GDP"
    /\ resp.body = [term |-> "gdp", definition |-> "A monetary measure.",
                    follow_ups |-> [json |-> <<>>]]
    /\ terminus = [k \in {"gdp"} |-> resp.body]

\* the first n terms whose critique answered relevant, in their order
RECURSIVE RelevantTerms(_, _, _)
RelevantTerms(candidate_terms, critiques, n) ==
    IF n = 0 THEN <<>>
    ELSE IF critiques[n] = "relevant"
    THEN Append(RelevantTerms(candidate_terms, critiques, n - 1),
                candidate_terms[n])
    ELSE RelevantTerms(candidate_terms, critiques, n - 1)

\* C27: term extraction returns the phase-1 terms whose critique answered
\* relevant, in phase-1 order and with their duplicates; a critique that
\* fails drops its own term only, and once phase 1 has returned its terms
\* the extraction does not raise.
C27_ExtractionFiltersInOrder ==
    /\ et.pc = "critique"
       => /\ Len(et.critiques) = et.i - 1
          /\ et.validated =
                RelevantTerms(et.candidate_terms, et.critiques, et.i - 1)
    /\ resp.handler = "extract_terms"
       => IF resp.status_code = 200
          THEN /\ Len(resp.args.critiques) = Len(resp.args.candidate_terms)
               /\ resp.body.terms =
                     [n \in 1..Len(resp.args.validated) |->
                         [term |-> resp.args.validated[n]]]
               /\ resp.args.validated =
                     RelevantTerms(resp.args.candidate_terms,
                                   resp.args.critiques,
                                   Len(resp.args.candidate_terms))
          ELSE /\ resp.status_code = 500
               /\ resp.args.candidate_terms = <<>>
               /\ resp.args.critiques = <<>>

\* a term extracted twice is returned twice and the term whose critique
\* failed is left out
C27_Witness ==
    /\ resp.handler = "extract_terms"
    /\ resp.status_code = 200
    /\ resp.args.candidate_terms = <<"GDP", "inflation", "GDP">>
    /\ resp.args.critiques = <<"relevant", "error", "relevant">>
    /\ resp.body.terms = <<[term |-> "GDP"], [term |-> "GDP"]>>

\* precompute_terms saves the candidate of its current term in this step
PrecomputeSaves ==
    /\ pt.pc = "fetching"
    /\ pt' # pt
    /\ ~(pt'.pc = "idle" /\ resp'.status_code = 500)

\* the key precompute_terms is working on
PrecomputeKey == Lower(pt.validated_terms[pt.i])

LoopAdvances(x, n) ==
    LET j == IF pt'.pc = "fetching" THEN pt'.i ELSE Len(x.validated_terms) + 1
    IN  /\ j >= n
        /\ \A k \in n..(j - 1) :
               Lower(x.validated_terms[k])
                   \in DOMAIN terminus' \cup DOMAIN candidate'
        /\ pt'.pc = "fetching"
           => /\ Lower(x.validated_terms[j])
                    \notin DOMAIN terminus' \cup DOMAIN candidate'
              /\ pt'.validated_terms = x.validated_terms
              /\ pt'.added_terms = x.added_terms
        /\ pt'.pc = "idle"
           => resp' = PrecomputeAnswer(x.added_terms)

StatusSources == {"wikipedia", "validation", "save_to_official"}

\* the forms a candidate status may have
KnownStatus(status) ==
    \/ status \in {"pending", "under_review"}
    \/ StartsWith(status, "rejected: ")
    \/ StartsWith(status, "rejected_llm: ")
    \/ \E source \in StatusSources :
          \/ StartsWith(status, source \o "_error: ")
          \/ StartsWith(status, source \o "_failed: ")

\* C29: in every reachable state the status of every Candidate Store entry
\* is `pending`, `under_review`, `rejected: <reason>`, `<source>_error:
\* <reason>`, `<source>_failed: <reason>` or `rejected_llm: <reason>`, and
\* no Term Store entry has a status.
C29_StatusCatalogue ==
    /\ \A k \in DOMAIN candidate :
          /\ "status" \in DOMAIN candidate[k]
          /\ KnownStatus(candidate[k].status)
    /\ \A k \in DOMAIN terminus :
          DOMAIN terminus[k] = {"term", "definition", "follow_ups"}

\* the stores hold a candidate written by the fallback of a background
\* task and a candidate written by precompute_terms
C29_Witness ==
    /\ "gdp" \in DOMAIN candidate
    /\ StartsWith(candidate["gdp"].status, "save_to_official_error: ")
    /\ "inflation" \in DOMAIN candidate
    /\ candidate["inflation"].status = "pending"

\* the request of handler for key is answered 204 in this step
Deleted(handler, key) ==
    /\ DeleteAnswered(handler)
    /\ resp'.status_code = 204
    /\ Lower(resp'.term) = key

\* C30: an entry leaves the Term Store only by a DELETE /definition request
\* for its term, and an entry leaves the Candidate Store only by a DELETE
\* /candidates request for its term or by the delete of an approving
\* promotion of it; no step of a background task, of GET /definition, of
\* POST /candidates, of POST /terms/precompute or of a rejection removes an
\* entry.
C30_RemovedOnlyByDeleteOrPromotion ==
    [][/\ \A k \in DOMAIN terminus \ DOMAIN terminus' :
             Deleted("delete_definition", k)
       /\ \A k \in DOMAIN candidate \ DOMAIN candidate' :
             \/ Deleted("delete_candidate", k)
             \/ PromotionDeletes /\ Lower(vc.term) = k]_vars

\* a candidate written by precompute_terms has been removed by a DELETE
\* /candidates request while another candidate stayed
C30_Witness ==
    /\ resp = Response("delete_candidate", "GDP", 204)
    /\ "gdp" \notin DOMAIN candidate
    /\ "inflation" \in DOMAIN candidate
    /\ candidate["inflation"].status = "pending"

\* the position a task may move to from each position, and the external call
\* the move makes
TaskMoves(before, after) ==
    LET a == before.pc
        b == after.pc
        calls(service) == after.calls = Append(before.calls, service)
        writes(store) ==
            /\ Len(after.writes) = Len(before.writes) + 1
            /\ after.writes[Len(after.writes)].store = store
        quiet == after.calls = before.calls /\ after.writes = before.writes
    IN  \/ a \in {"idle", "done"} /\ b = "queued"
        \/ a = "queued" /\ b = "check_official" /\ quiet
        \/ a = "check_official" /\ b \in {"check_candidate", "done"} /\ quiet
        \/ a = "check_candidate" /\ b \in {"fetch", "done"} /\ quiet
        \/ /\ a = "fetch" /\ b \in {"validate", "save_candidate", "done"}
           /\ calls("wikipedia") /\ after.writes = before.writes
        \/ /\ a = "validate" /\ b \in {"followups", "save_candidate"}
           /\ calls("validation") /\ after.writes = before.writes
           /\ b = "followups" => IsValid(after)
        \/ /\ a = "followups" /\ b = "save_official"
           /\ calls("followups") /\ after.writes = before.writes
           /\ IsValid(before)
        \/ /\ a = "save_official" /\ b \in {"done", "save_candidate"}
           /\ after.calls = before.calls /\ writes("terminus")
           /\ IsValid(before)
        \/ /\ a = "save_candidate" /\ b = "done"
           /\ after.calls = before.calls /\ writes("candidate")

\* the text a task holds from the fetch on is the text it validates and stores
KeepsSummary(before, after) ==
    (before.pc \in {"validate", "followups", "save_official"}
        /\ after.pc # "done")
    => after.candidate_summary = before.candidate_summary

\* C31: a task moves through its steps in one order: the Term Store
\* pre-check, the Candidate Store pre-check, the query of the definition
\* source, the validation, the follow-up generation (reached only with a
\* valid verdict), the Term Store write.  A Term Store write is made only by
\* a task holding a valid verdict, it stores the text that was fetched and
\* validated, and the follow-up client is called only by a task holding a
\* valid verdict.
C31_StepsInOrder ==
    [][\A w \in Workflows :
          /\ wf'[w] # wf[w]
                => TaskMoves(wf[w], wf'[w]) /\ KeepsSummary(wf[w], wf'[w])
          /\ (wf'[w] # wf[w] /\ wf[w].pc = "save_official"
                /\ terminus' # terminus)
                => /\ IsValid(wf[w])
                   /\ wf[w].calls[2] = "validation"
                   /\ wf[w].term \in DOMAIN terminus'
                   /\ terminus'[wf[w].term].definition
                          = wf[w].candidate_summary]_vars

\* a task has gone through every step and written the Term Store
C31_Witness ==
    \E w \in Workflows :
        /\ wf[w].pc = "done"
        /\ wf[w].calls = <<"wikipedia", "validation", "followups">>
        /\ wf[w].writes = <<[store |-> "terminus", ok |-> TRUE]>>
        /\ wf[w].term \in DOMAIN terminus
        /\ terminus[wf[w].term].definition \in Summaries

\* task w commits a store write in this step
Commits(w, store) ==
    /\ wf[w].pc = IF store = "terminus" THEN "save_official"
                  ELSE "save_candidate"
    /\ wf'[w].pc = "done"
    /\ wf'[w].writes[Len(wf'[w].writes)] = [store |-> store, ok |-> TRUE]

\* task v ran the fetch/validate/write sequence for the term of task w and
\* has returned after a write that was committed
WroteEarlier(v, w) ==
    /\ v # w
    /\ wf[v].pc = "done"
    /\ wf[v].term = wf[w].term
    /\ wf[v].calls # <<>>
    /\ WroteOk(wf[v], "terminus") \/ WroteOk(wf[v], "candidate")

\* the rows the two saves of a task write
OfficialRow(task) ==
    [term |-> task.term, definition |-> task.candidate_summary,
     follow_ups |-> _serialize_follow_ups(task.follow_ups_to_save)]

CandidateRow(task) ==
    [term |-> task.term, definition |-> task.save_args.definition,
     follow_ups |-> _serialize_follow_ups(task.save_args.follow_ups),
     status |-> task.save_args.status]

\* C32 as stated: when the second of two tasks for one term, both past the
\* pre-checks, commits its final write, what is stored for the term is exactly
\* what that write produced: the store it wrote holds its row and the other
\* store holds nothing for the term.
C32_LastWriteWins ==
    [][\A w, v \in Workflows :
          WroteEarlier(v, w) =>
             /\ Commits(w, "terminus")
                   => /\ terminus'[wf[w].term] = OfficialRow(wf[w])
                      /\ wf[w].term \notin DOMAIN candidate'
             /\ Commits(w, "candidate")
                   => /\ candidate'[wf[w].term] = CandidateRow(wf[w])
                      /\ wf[w].term \notin DOMAIN terminus']_vars

\* C32 amended: the store the later write targets holds exactly the row of
\* that write, with nothing of the row an earlier write put there; the other
\* store is left as it was, so an entry the earlier write put in the other
\* store stays.
C32_LastWriteWinsPerStore ==
    [][\A w, v \in Workflows :
          WroteEarlier(v, w) =>
             /\ Commits(w, "terminus")
                   => /\ terminus'[wf[w].term] = OfficialRow(wf[w])
                      /\ candidate' = candidate
             /\ Commits(w, "candidate")
                   => /\ candidate'[wf[w].term] = CandidateRow(wf[w])
                      /\ terminus' = terminus]_vars

\* two tasks for one term have both run the whole sequence and both written
\* the Candidate Store, and the term has one entry
C32_Witness ==
    \E w, v \in Workflows :
        /\ w # v
        /\ wf[w].pc = "done" /\ wf[v].pc = "done"
        /\ wf[w].term = wf[v].term
        /\ ~wf[w].present_at_start /\ ~wf[v].present_at_start
        /\ wf[w].calls = <<"wikipedia", "validation">>
        /\ wf[v].calls = <<"wikipedia">>
        /\ wf[w].writes = <<[store |-> "candidate", ok |-> TRUE]>>
        /\ wf[v].writes = <<[store |-> "candidate", ok |-> TRUE]>>
        /\ wf[w].term \in DOMAIN candidate
        /\ wf[w].term \notin DOMAIN terminus

\* C33: the status a task writes after an invalid verdict is never longer
\* than 255 characters: it is `rejected_llm: ` followed by the reasoning when
\* that string has at most 255 characters, and otherwise the first 252
\* characters of that string followed by `...`.
C33_RejectedStatusFits ==
    [][\A w \in Workflows :
          (SavedCandidate(w) /\ IsInvalid(wf[w]))
          => LET full == "rejected_llm: " \o wf[w].validation_result.reasoning
                 status == candidate'[wf[w].term].status
             IN  /\ Len(status) <= 255
                 /\ Len(full) <= 255 => status = full
                 /\ Len(full) > 255
                       => status = SubSeq(full, 1, 252) \o "..."]_vars

\* a rejection whose status is one character too long has been recorded cut,
\* after one with a status of exactly 255 characters was recorded whole
C33_Witness ==
    \E w, v \in Workflows :
        /\ wf[w].pc = "done" /\ wf[v].pc = "done"
        /\ wf[w].writes = <<[store |-> "candidate", ok |-> TRUE]>>
        /\ wf[v].writes = <<[store |-> "candidate", ok |-> TRUE]>>
        /\ wf[w].term \in DOMAIN candidate
        /\ wf[v].term \in DOMAIN candidate
        /\ candidate[wf[w].term].status
               = "rejected_llm: " \o FittingReasoning
        /\ candidate[wf[v].term].status
               = SubSeq("rejected_llm: " \o FittingReasoning, 1, 252) \o "..."

\* C34: when POST /candidates/validate rejects a candidate, the status
\* recorded is `rejected: ` followed by the reason the request carried.
C34_RejectionRecordsCallersReason ==
    [][\A term \in RequestTerms, reason \in ValidationReasons :
          (/\ CandidateExists(candidate, term)
           /\ validate_candidate(term, FALSE, reason))
          => candidate'[Lower(term)].status = "rejected: " \o reason]_vars

\* the entries of a store under every key but one are the same before and
\* after
SameButFor(before, after, key) ==
    /\ DOMAIN before \ {key} = DOMAIN after \ {key}
    /\ \A k \in DOMAIN before \ {key} : after[k] = before[k]

\* the number of committed writes in the log of a task
RECURSIVE CommittedWrites(_)
CommittedWrites(writes) ==
    IF writes = <<>> THEN 0
    ELSE (IF Head(writes).ok THEN 1 ELSE 0) + CommittedWrites(Tail(writes))

\* C35: a task for term T commits at most one store write during its run;
\* every step of the task leaves the entries under the keys other than
\* trim(lowercase(T)) as they are, in both stores, and changes a store only
\* by the write it commits.
C35_OneWriteOneKey ==
    [][\A w \in Workflows :
          (~Free(w) /\ wf'[w] # wf[w])
          => /\ wf[w].pc = "queued"
                   => /\ wf'[w].term = Strip(Lower(wf[w].term))
                      /\ UNCHANGED <<terminus, candidate>>
             /\ wf[w].pc # "queued"
                   => /\ wf'[w].term = wf[w].term
                      /\ SameButFor(terminus, terminus', wf[w].term)
                      /\ SameButFor(candidate, candidate', wf[w].term)
             /\ CommittedWrites(wf'[w].writes) <= 1
             /\ <<terminus, candidate>>' # <<terminus, candidate>>
                   => CommittedWrites(wf'[w].writes)
                          = CommittedWrites(wf[w].writes) + 1]_vars

\* a task for " GDP " has written the key gdp while the other store held an
\* entry under another key, which is still there
C35_Witness ==
    \E w \in Workflows :
        /\ wf[w].pc = "done"
        /\ wf[w].term = "gdp"
        /\ wf[w].writes = <<[store |-> "terminus", ok |-> FALSE],
                            [store |-> "candidate", ok |-> TRUE]>>
        /\ "gdp" \in DOMAIN candidate
        /\ LowerLongTerm \in DOMAIN terminus
        /\ DOMAIN terminus = {LowerLongTerm}

\* C36: an approving POST /candidates/validate for a term that has a
\* candidate is never refused, whatever the status of the candidate: it
\* copies the definition and the follow-ups of the candidate to the Term
\* Store, and its second step deletes the candidate.
C36_ApprovalIgnoresStatus ==
    [][/\ \A term \in RequestTerms, reason \in ValidationReasons :
             (/\ CandidateExists(candidate, term)
              /\ validate_candidate(term, TRUE, reason))
             => /\ PromotionSaves
                /\ Lower(term) \in DOMAIN terminus'
                /\ terminus'[Lower(term)].definition
                       = candidate[Lower(term)].definition
                /\ terminus'[Lower(term)].follow_ups
                       = candidate[Lower(term)].follow_ups
                /\ candidate' = candidate
       /\ PromotionDeletes => vc.term \notin DOMAIN candidate']_vars

\* a candidate that a reviewer had rejected is being promoted: it is in the
\* Term Store and its delete is the next step of the handler
C36_Witness ==
    /\ vc.pc = "promoting"
    /\ vc.term = "gdp"
    /\ "gdp" \in DOMAIN candidate
    /\ candidate["gdp"].status = "rejected: Disapproved by user"
    /\ "gdp" \in DOMAIN terminus
    /\ terminus["gdp"].definition = candidate["gdp"].definition

\* the last request answered was a delete that removed the entry of key
DeletedLast(key) ==
    /\ resp.handler \in {"delete_candidate", "delete_definition"}
    /\ resp.status_code = 204
    /\ Lower(resp.term) = key

\* C37: re-resolution is blocked exactly as long as a record exists.  A GET
\* /definition/T that follows a DELETE /candidates/T or a DELETE
\* /definition/T which removed the record queues a new task exactly when T is
\* in neither store at that time; and a task whose pre-checks find no record
\* of its term goes on to query the definition source.
C37_BlockLastsWhileRecordExists ==
    [][/\ \A raw \in RawTerms :
             (DeletedLast(Lower(Strip(raw))) /\ get_definition(raw))
             => (QueuesTask(Lower(Strip(raw)))
                    <=> /\ Lower(Strip(raw)) \notin DOMAIN terminus
                        /\ Lower(Strip(raw)) \notin DOMAIN candidate)
       /\ \A w \in Workflows :
             wf'[w] # wf[w] =>
                /\ (/\ wf[w].pc = "check_official"
                    /\ ~TerminusExists(terminus, wf[w].term))
                   => wf'[w].pc = "check_candidate" \/ wf'[w].dropped
                /\ (/\ wf[w].pc = "check_candidate"
                    /\ ~CandidateExists(candidate, wf[w].term))
                   => wf'[w].pc = "fetch" \/ wf'[w].dropped
                /\ wf[w].pc = "fetch"
                   => wf'[w].calls = <<"wikipedia">>]_vars

\* a failed resolution left a candidate for gdp, DELETE /candidates/GDP
\* removed it, and the task that the next GET /definition/ GDP  queued has
\* queried the definition source again
C37_Witness ==
    /\ ops = 3
    /\ resp.handler = "get_definition"
    /\ resp.term = "gdp"
    /\ "gdp" \notin raced
    /\ "gdp" \notin DOMAIN candidate
    /\ "gdp" \notin DOMAIN terminus
    /\ wf[1].pc = "done"
    /\ wf[1].term = "gdp"
    /\ wf[1].writes = <<[store |-> "candidate", ok |-> TRUE]>>
    /\ wf[2].term = "gdp"
    /\ ~wf[2].present_at_start
    /\ wf[2].calls = <<"wikipedia">>

\* no two terms of the list have the same key
NoDuplicateKeys(terms) ==
    \A a, b \in 1..Len(terms) : a # b => Lower(terms[a]) # Lower(terms[b])

\* no two neighbours of the list have the same key
NoAdjacentDuplicateKeys(terms) ==
    \A a \in 1..(Len(terms) - 1) : Lower(terms[a]) # Lower(terms[a + 1])

\* the added_terms of the request in flight, or of the answer just given
AddedTerms ==
    IF pt.pc # "idle" THEN pt.added_terms
    ELSE IF resp.handler = "precompute_terms" /\ resp.status_code = 200
    THEN resp.body.added_terms
    ELSE <<>>

\* C38 as stated: within one request the validated terms of one key produce
\* one Candidate Store write, so added_terms never holds two terms of one
\* key.
C38_OneWritePerKey == NoDuplicateKeys(AddedTerms)

\* the loop of the request stops at a new position in this step
LoopStops ==
    /\ pt'.pc = "fetching"
    /\ pt.pc = "fetching" => pt'.i # pt.i

\* C38 amended: the loop stops at a later occurrence of a key it has written
\* only if the key is in neither store when the loop reaches it, that is,
\* only after the entry was removed while the request awaited the lookups of
\* another term; an occurrence reached while the entry exists is skipped, and
\* two writes of one key are never consecutive.
C38_OneWritePerKeyWhileStored ==
    [][/\ NoAdjacentDuplicateKeys(pt'.added_terms)
       /\ (pt'.pc = "idle" /\ resp'.handler = "precompute_terms"
              /\ resp'.status_code = 200)
          => NoAdjacentDuplicateKeys(resp'.body.added_terms)
       /\ LoopStops
          => /\ Lower(pt'.validated_terms[pt'.i]) \notin DOMAIN candidate'
             /\ Lower(pt'.validated_terms[pt'.i]) \notin DOMAIN terminus']_vars

\* a request whose validated terms were GDP, gdp and inflation has written
\* GDP, skipped gdp and is looking inflation up
C38_Witness ==
    /\ pt.pc = "fetching"
    /\ pt.validated_terms = <<"GDP", "gdp", "inflation">>
    /\ pt.i = 3
    /\ pt.added_terms = <<"GDP">>
    /\ "gdp" \in DOMAIN candidate
    /\ candidate["gdp"].status = "pending"

\* C39: a task that has returned has closed its session, and the session
\* was closed exactly once during the run.
C39_SessionClosedOnce ==
    \A w \in Workflows :
        wf[w].pc = "done" => wf[w].session = "closed" /\ Len(wf[w].closes) = 1

====
